---- MODULE Spec2Model ----
(***************************************************************************)
(* Obsidian vault maintenance scripts: tag normalisation, frontmatter      *)
(* parsing and serialisation, and the per-document processing loops of     *)
(* the tag standardizer, the metadata adder and the daily-notes connector. *)
(*                                                                         *)
(* Text is modelled as a sequence of one-character strings, so that        *)
(* strip, lower, split, startswith and the regular expressions of the      *)
(* scripts are computed character by character as Python computes them.    *)
(***************************************************************************)
EXTENDS Integers, Sequences, FiniteSets, TLC

(***************************************************************************)
(* Python str primitives                                                   *)
(***************************************************************************)
UpperChars == <<"A","B","C","D","E","F","G","H","I","J","K","L","M",
                "N","O","P","Q","R","S","T","U","V","W","X","Y","Z">>

LowerChars == <<"a","b","c","d","e","f","g","h","i","j","k","l","m",
                "n","o","p","q","r","s","t","u","v","w","x","y","z">>

DigitChars == {"0","1","2","3","4","5","6","7","8","9"}

WhitespaceChars == {" ", "\n", "\t"}

NL == "\n"

\* str.lower() on one character
LowerChar(c) ==
  IF \E i \in 1..26 : UpperChars[i] = c
  THEN LowerChars[CHOOSE i \in 1..26 : UpperChars[i] = c]
  ELSE c

\* str.lower()
StrLower(s) == [i \in 1..Len(s) |-> LowerChar(s[i])]

\* str.replace(a, b) for one-character a and b
StrReplaceChar(s, a, b) == [i \in 1..Len(s) |-> IF s[i] = a THEN b ELSE s[i]]

\* s[from-1:] in Python, i.e. the suffix that starts at 1-based index from
StrFrom(s, from) == IF from > Len(s) THEN <<>> ELSE SubSeq(s, from, Len(s))

\* str.startswith(p)
StartsWith(s, p) == Len(s) >= Len(p) /\ SubSeq(s, 1, Len(p)) = p

\* str.lstrip()
RECURSIVE LStrip(_)
LStrip(s) ==
  IF s # <<>> /\ s[1] \in WhitespaceChars THEN LStrip(Tail(s)) ELSE s

\* str.rstrip()
RECURSIVE RStrip(_)
RStrip(s) ==
  IF s # <<>> /\ s[Len(s)] \in WhitespaceChars
  THEN RStrip(SubSeq(s, 1, Len(s) - 1)) ELSE s

\* str.strip()
Strip(s) == RStrip(LStrip(s))

\* 1-based index of the first occurrence of character c in s, 0 when absent
FindChar(s, c) ==
  IF \E i \in 1..Len(s) : s[i] = c
  THEN CHOOSE i \in 1..Len(s) : s[i] = c /\ \A j \in 1..(i-1) : s[j] # c
  ELSE 0

\* str.split(c) for a one-character separator: always at least one part
RECURSIVE Split(_, _)
Split(s, c) ==
  LET k == FindChar(s, c) IN
    IF k = 0 THEN <<s>>
    ELSE <<SubSeq(s, 1, k - 1)>> \o Split(StrFrom(s, k + 1), c)

\* c.join(parts) for a one-character separator
RECURSIVE Join(_, _)
Join(parts, c) ==
  IF parts = <<>> THEN <<>>
  ELSE IF Len(parts) = 1 THEN parts[1]
  ELSE parts[1] \o <<c>> \o Join(Tail(parts), c)

\* 1-based index of the first occurrence of p in s at or after index from,
\* 0 when absent (str.find / str.index with a start position)
FindSub(s, p, from) ==
  LET hits == {i \in from..(Len(s) - Len(p) + 1) : SubSeq(s, i, i + Len(p) - 1) = p} IN
    IF hits = {} THEN 0 ELSE CHOOSE i \in hits : \A j \in hits : i <= j

\* dict lookup in a table given as a sequence of <<key, value>> items; a key
\* that is listed twice keeps its last value, as in a Python dict display
HasKey(items, k) == \E i \in 1..Len(items) : items[i][1] = k

Lookup(items, k) ==
  items[CHOOSE i \in 1..Len(items) :
          items[i][1] = k /\ \A j \in (i+1)..Len(items) : items[j][1] # k][2]

(***************************************************************************)
(* TagStandardizer.standard_mappings and                                   *)
(* EnhancedTagStandardizer.enhanced_mappings                               *)
(***************************************************************************)
standard_mappings ==
  <<
    << <<"#","F","0","E","E","E","6">>, <<"c","l","i","p","p","i","n","g","s">> >>,
    << <<"#","e","0","e","0","e","0">>, <<"r","e","f","e","r","e","n","c","e">> >>,
    << <<"#","f","0","f","0","f","0">>, <<"n","o","t","e">> >>,
    << <<"l","a","n","g","c","h","a","i","n">>, <<"l","a","n","g","c","h","a","i","n">> >>,
    << <<"l","a","n","g","-","c","h","a","i","n">>, <<"l","a","n","g","c","h","a","i","n">> >>,
    << <<"L","a","n","g","C","h","a","i","n">>, <<"l","a","n","g","c","h","a","i","n">> >>,
    << <<"l","a","n","g","g","r","a","p","h">>, <<"l","a","n","g","g","r","a","p","h">> >>,
    << <<"l","a","n","g","-","g","r","a","p","h">>, <<"l","a","n","g","g","r","a","p","h">> >>,
    << <<"L","a","n","g","G","r","a","p","h">>, <<"l","a","n","g","g","r","a","p","h">> >>,
    << <<"m","c","p">>, <<"m","c","p">> >>,
    << <<"M","C","P">>, <<"m","c","p">> >>,
    << <<"m","o","d","e","l","-","c","o","n","t","e","x","t","-","p","r","o","t","o","c","o","l">>, <<"m","c","p">> >>,
    << <<"M","o","d","e","l"," ","C","o","n","t","e","x","t"," ","P","r","o","t","o","c","o","l">>, <<"m","c","p">> >>,
    << <<"g","r","a","p","h","r","a","g">>, <<"g","r","a","p","h","r","a","g">> >>,
    << <<"G","r","a","p","h","R","A","G">>, <<"g","r","a","p","h","r","a","g">> >>,
    << <<"g","r","a","p","h","-","r","a","g">>, <<"g","r","a","p","h","r","a","g">> >>,
    << <<"o","p","e","n","a","i">>, <<"o","p","e","n","a","i">> >>,
    << <<"O","p","e","n","A","I">>, <<"o","p","e","n","a","i">> >>,
    << <<"a","n","t","h","r","o","p","i","c">>, <<"a","n","t","h","r","o","p","i","c">> >>,
    << <<"A","n","t","h","r","o","p","i","c">>, <<"a","n","t","h","r","o","p","i","c">> >>,
    << <<"c","l","a","u","d","e">>, <<"a","n","t","h","r","o","p","i","c">> >>,
    << <<"C","l","a","u","d","e">>, <<"a","n","t","h","r","o","p","i","c">> >>,
    << <<"l","l","m">>, <<"a","i","/","l","l","m">> >>,
    << <<"L","L","M">>, <<"a","i","/","l","l","m">> >>,
    << <<"a","i","-","a","g","e","n","t","s">>, <<"a","i","/","a","g","e","n","t","s">> >>,
    << <<"A","I"," ","A","g","e","n","t","s">>, <<"a","i","/","a","g","e","n","t","s">> >>,
    << <<"e","m","b","e","d","d","i","n","g","s">>, <<"a","i","/","e","m","b","e","d","d","i","n","g","s">> >>,
    << <<"v","e","c","t","o","r","-","d","b">>, <<"a","i","/","e","m","b","e","d","d","i","n","g","s">> >>,
    << <<"r","a","g">>, <<"a","i","/","e","m","b","e","d","d","i","n","g","s">> >>,
    << <<"R","A","G">>, <<"a","i","/","e","m","b","e","d","d","i","n","g","s">> >>,
    << <<"M","O","C">>, <<"m","o","c">> >>,
    << <<"A","P","I">>, <<"a","p","i">> >>,
    << <<"R","S","S">>, <<"r","s","s">> >>,
    << <<"U","I">>, <<"u","i">> >>,
    << <<"A","I">>, <<"a","i">> >>,
    << <<"r","e","s","e","a","r","c","h">>, <<"r","e","s","e","a","r","c","h">> >>,
    << <<"R","e","s","e","a","r","c","h">>, <<"r","e","s","e","a","r","c","h">> >>,
    << <<"t","u","t","o","r","i","a","l">>, <<"t","u","t","o","r","i","a","l">> >>,
    << <<"T","u","t","o","r","i","a","l">>, <<"t","u","t","o","r","i","a","l">> >>,
    << <<"h","o","w","-","t","o">>, <<"t","u","t","o","r","i","a","l">> >>,
    << <<"g","u","i","d","e">>, <<"t","u","t","o","r","i","a","l">> >>,
    << <<"r","e","f","e","r","e","n","c","e">>, <<"r","e","f","e","r","e","n","c","e">> >>,
    << <<"R","e","f","e","r","e","n","c","e">>, <<"r","e","f","e","r","e","n","c","e">> >>,
    << <<"d","o","c","s">>, <<"r","e","f","e","r","e","n","c","e">> >>,
    << <<"d","o","c","u","m","e","n","t","a","t","i","o","n">>, <<"r","e","f","e","r","e","n","c","e">> >>,
    << <<"i","d","e","a">>, <<"i","d","e","a">> >>,
    << <<"I","d","e","a">>, <<"i","d","e","a">> >>,
    << <<"i","d","e","a","s">>, <<"i","d","e","a">> >>,
    << <<"b","r","a","i","n","s","t","o","r","m">>, <<"i","d","e","a">> >>,
    << <<"c","o","n","c","e","p","t">>, <<"i","d","e","a">> >>,
    << <<"m","e","e","t","i","n","g">>, <<"m","e","e","t","i","n","g">> >>,
    << <<"M","e","e","t","i","n","g">>, <<"m","e","e","t","i","n","g">> >>,
    << <<"n","o","t","e","s">>, <<"m","e","e","t","i","n","g">> >>,
    << <<"e","m","a","i","l">>, <<"e","m","a","i","l">> >>,
    << <<"E","m","a","i","l">>, <<"e","m","a","i","l">> >>,
    << <<"c","o","r","r","e","s","p","o","n","d","e","n","c","e">>, <<"e","m","a","i","l">> >>,
    << <<"d","a","i","l","y">>, <<"d","a","i","l","y">> >>,
    << <<"D","a","i","l","y">>, <<"d","a","i","l","y">> >>,
    << <<"j","o","u","r","n","a","l">>, <<"d","a","i","l","y">> >>,
    << <<"J","o","u","r","n","a","l">>, <<"d","a","i","l","y">> >>,
    << <<"l","o","g">>, <<"d","a","i","l","y">> >>,
    << <<"c","l","i","e","n","t">>, <<"c","l","i","e","n","t">> >>,
    << <<"C","l","i","e","n","t">>, <<"c","l","i","e","n","t">> >>,
    << <<"b","u","s","i","n","e","s","s">>, <<"b","u","s","i","n","e","s","s">> >>,
    << <<"B","u","s","i","n","e","s","s">>, <<"b","u","s","i","n","e","s","s">> >>,
    << <<"s","t","a","r","t","u","p">>, <<"s","t","a","r","t","u","p">> >>,
    << <<"S","t","a","r","t","u","p">>, <<"s","t","a","r","t","u","p">> >>,
    << <<"f","r","e","e","l","a","n","c","e">>, <<"f","r","e","e","l","a","n","c","e">> >>,
    << <<"F","r","e","e","l","a","n","c","e">>, <<"f","r","e","e","l","a","n","c","e">> >>,
    << <<"p","r","o","j","e","c","t">>, <<"p","r","o","j","e","c","t">> >>,
    << <<"P","r","o","j","e","c","t">>, <<"p","r","o","j","e","c","t">> >>,
    << <<"a","c","t","i","v","e">>, <<"s","t","a","t","u","s","/","a","c","t","i","v","e">> >>,
    << <<"A","c","t","i","v","e">>, <<"s","t","a","t","u","s","/","a","c","t","i","v","e">> >>,
    << <<"d","r","a","f","t">>, <<"s","t","a","t","u","s","/","d","r","a","f","t">> >>,
    << <<"D","r","a","f","t">>, <<"s","t","a","t","u","s","/","d","r","a","f","t">> >>,
    << <<"c","o","m","p","l","e","t","e","d">>, <<"s","t","a","t","u","s","/","c","o","m","p","l","e","t","e","d">> >>,
    << <<"C","o","m","p","l","e","t","e","d">>, <<"s","t","a","t","u","s","/","c","o","m","p","l","e","t","e","d">> >>,
    << <<"a","r","c","h","i","v","e","d">>, <<"s","t","a","t","u","s","/","a","r","c","h","i","v","e","d">> >>,
    << <<"A","r","c","h","i","v","e","d">>, <<"s","t","a","t","u","s","/","a","r","c","h","i","v","e","d">> >>,
    << <<"t","o","d","o">>, <<"a","c","t","i","o","n","/","t","o","d","o">> >>,
    << <<"T","O","D","O">>, <<"a","c","t","i","o","n","/","t","o","d","o">> >>,
    << <<"f","o","l","l","o","w","-","u","p">>, <<"a","c","t","i","o","n","/","f","o","l","l","o","w","-","u","p">> >>,
    << <<"F","o","l","l","o","w","-","u","p">>, <<"a","c","t","i","o","n","/","f","o","l","l","o","w","-","u","p">> >>,
    << <<"c","o","u","r","s","e">>, <<"l","e","a","r","n","i","n","g","/","c","o","u","r","s","e">> >>,
    << <<"C","o","u","r","s","e">>, <<"l","e","a","r","n","i","n","g","/","c","o","u","r","s","e">> >>,
    << <<"c","e","r","t","i","f","i","c","a","t","i","o","n">>, <<"l","e","a","r","n","i","n","g","/","c","e","r","t","i","f","i","c","a","t","i","o","n">> >>,
    << <<"C","e","r","t","i","f","i","c","a","t","i","o","n">>, <<"l","e","a","r","n","i","n","g","/","c","e","r","t","i","f","i","c","a","t","i","o","n">> >>,
    << <<"b","o","o","k">>, <<"l","e","a","r","n","i","n","g","/","b","o","o","k">> >>,
    << <<"B","o","o","k">>, <<"l","e","a","r","n","i","n","g","/","b","o","o","k">> >>,
    << <<"v","i","d","e","o">>, <<"l","e","a","r","n","i","n","g","/","v","i","d","e","o">> >>,
    << <<"V","i","d","e","o">>, <<"l","e","a","r","n","i","n","g","/","v","i","d","e","o">> >>,
    << <<"p","o","d","c","a","s","t">>, <<"l","e","a","r","n","i","n","g","/","p","o","d","c","a","s","t">> >>,
    << <<"P","o","d","c","a","s","t">>, <<"l","e","a","r","n","i","n","g","/","p","o","d","c","a","s","t">> >>,
    << <<"c","o","n","f","e","r","e","n","c","e">>, <<"l","e","a","r","n","i","n","g","/","c","o","n","f","e","r","e","n","c","e">> >>,
    << <<"C","o","n","f","e","r","e","n","c","e">>, <<"l","e","a","r","n","i","n","g","/","c","o","n","f","e","r","e","n","c","e">> >>,
    << <<"w","e","b","i","n","a","r">>, <<"l","e","a","r","n","i","n","g","/","w","e","b","i","n","a","r">> >>,
    << <<"W","e","b","i","n","a","r">>, <<"l","e","a","r","n","i","n","g","/","w","e","b","i","n","a","r">> >>
  >>

enhanced_mappings ==
  <<
    << <<"a","i","-","d","e","v","e","l","o","p","m","e","n","t">>, <<"a","i","/","d","e","v","e","l","o","p","m","e","n","t">> >>,
    << <<"a","i","-","i","d","e","a","s">>, <<"i","d","e","a">> >>,
    << <<"a","i","-","t","o","o","l","s">>, <<"a","i","/","t","o","o","l","s">> >>,
    << <<"a","i","-","c","o","n","s","u","l","t","i","n","g">>, <<"c","o","n","s","u","l","t","i","n","g">> >>,
    << <<"a","i","-","c","o","u","r","s","e","s">>, <<"l","e","a","r","n","i","n","g","/","c","o","u","r","s","e">> >>,
    << <<"a","i","-","c","o","n","f","e","r","e","n","c","e","s","-","a","n","d","-","c","o","m","p","e","t","i","t","i","o","n","s">>, <<"l","e","a","r","n","i","n","g","/","c","o","n","f","e","r","e","n","c","e">> >>,
    << <<"a","i","-","a","r","t","i","c","l","e","s","-","a","n","d","-","r","e","s","e","a","r","c","h">>, <<"a","i","/","r","e","s","e","a","r","c","h">> >>,
    << <<"a","i","-","a","g","e","n","t">>, <<"a","i","/","a","g","e","n","t","s">> >>,
    << <<"a","i","-","c","o","m","m","u","n","i","t","y">>, <<"c","o","m","m","u","n","i","t","y">> >>,
    << <<"a","i","-","i","n","t","e","g","r","a","t","i","o","n">>, <<"a","i","/","d","e","v","e","l","o","p","m","e","n","t">> >>,
    << <<"a","i","-","s","e","r","v","i","c","e","s">>, <<"a","i","/","t","o","o","l","s">> >>,
    << <<"b","u","s","i","n","e","s","s","-","s","t","r","a","t","e","g","y">>, <<"b","u","s","i","n","e","s","s","/","s","t","r","a","t","e","g","y">> >>,
    << <<"b","u","s","i","n","e","s","s","-","d","e","v","e","l","o","p","m","e","n","t">>, <<"b","u","s","i","n","e","s","s","/","d","e","v","e","l","o","p","m","e","n","t">> >>,
    << <<"b","u","s","i","n","e","s","s","-","i","n","t","e","l","l","i","g","e","n","c","e">>, <<"b","u","s","i","n","e","s","s","/","a","n","a","l","y","t","i","c","s">> >>,
    << <<"b","u","s","i","n","e","s","s","-","m","o","d","e","l">>, <<"b","u","s","i","n","e","s","s","/","s","t","r","a","t","e","g","y">> >>,
    << <<"b","u","s","i","n","e","s","s","-","a","u","t","o","m","a","t","i","o","n">>, <<"a","u","t","o","m","a","t","i","o","n">> >>,
    << <<"b","u","s","i","n","e","s","s","-","s","y","s","t","e","m","s">>, <<"b","u","s","i","n","e","s","s","/","s","y","s","t","e","m","s">> >>,
    << <<"b","u","s","i","n","e","s","s","-","c","a","s","e">>, <<"b","u","s","i","n","e","s","s","/","s","t","r","a","t","e","g","y">> >>,
    << <<"b","u","s","i","n","e","s","s","-","c","o","n","t","e","x","t">>, <<"b","u","s","i","n","e","s","s">> >>,
    << <<"b","u","s","i","n","e","s","s","-","r","e","s","e","a","r","c","h">>, <<"b","u","s","i","n","e","s","s","/","r","e","s","e","a","r","c","h">> >>,
    << <<"b","u","s","i","n","e","s","s","-","m","a","p","p","i","n","g">>, <<"b","u","s","i","n","e","s","s","/","s","t","r","a","t","e","g","y">> >>,
    << <<"b","u","s","i","n","e","s","s","-","r","e","p","o","r","t">>, <<"b","u","s","i","n","e","s","s","/","a","n","a","l","y","t","i","c","s">> >>,
    << <<"b","u","s","i","n","e","s","s","-","o","p","e","r","a","t","i","o","n","s">>, <<"b","u","s","i","n","e","s","s","/","o","p","e","r","a","t","i","o","n","s">> >>,
    << <<"b","u","s","i","n","e","s","s","-","p","l","a","n">>, <<"b","u","s","i","n","e","s","s","/","s","t","r","a","t","e","g","y">> >>,
    << <<"b","u","s","i","n","e","s","s","-","t","r","a","n","s","f","o","r","m","a","t","i","o","n">>, <<"b","u","s","i","n","e","s","s","/","s","t","r","a","t","e","g","y">> >>,
    << <<"b","u","s","i","n","e","s","s","-","s","o","l","u","t","i","o","n","s">>, <<"b","u","s","i","n","e","s","s","/","s","o","l","u","t","i","o","n","s">> >>,
    << <<"b","u","s","i","n","e","s","s","-","a","s","s","e","t","s">>, <<"b","u","s","i","n","e","s","s","/","a","s","s","e","t","s">> >>,
    << <<"c","l","i","e","n","t","-","w","o","r","k">>, <<"c","l","i","e","n","t">> >>,
    << <<"c","l","i","e","n","t","-","m","a","t","e","r","i","a","l","s">>, <<"c","l","i","e","n","t">> >>,
    << <<"c","l","i","e","n","t","-","a","n","a","l","y","t","i","c","s">>, <<"c","l","i","e","n","t">> >>,
    << <<"c","l","i","e","n","t","-","c","o","m","m","u","n","i","c","a","t","i","o","n">>, <<"c","l","i","e","n","t">> >>,
    << <<"t","u","t","o","r","i","a","l","/","c","o","u","r","s","e">>, <<"l","e","a","r","n","i","n","g","/","c","o","u","r","s","e">> >>,
    << <<"l","e","a","r","n","i","n","g","-","p","a","t","h","s">>, <<"l","e","a","r","n","i","n","g">> >>,
    << <<"c","o","u","r","s","e","s">>, <<"l","e","a","r","n","i","n","g","/","c","o","u","r","s","e">> >>,
    << <<"t","u","t","o","r","i","a","l","s">>, <<"t","u","t","o","r","i","a","l">> >>,
    << <<"g","u","i","d","e","s">>, <<"t","u","t","o","r","i","a","l">> >>,
    << <<"t","r","a","i","n","i","n","g">>, <<"l","e","a","r","n","i","n","g">> >>,
    << <<"c","e","r","t","i","f","i","c","a","t","i","o","n","s">>, <<"l","e","a","r","n","i","n","g","/","c","e","r","t","i","f","i","c","a","t","i","o","n">> >>,
    << <<"d","e","v","e","l","o","p","m","e","n","t","-","t","o","o","l","s">>, <<"a","i","/","t","o","o","l","s">> >>,
    << <<"t","o","o","l","s">>, <<"a","i","/","t","o","o","l","s">> >>,
    << <<"a","p","i","s">>, <<"a","p","i">> >>,
    << <<"a","p","i","-","i","n","t","e","g","r","a","t","i","o","n">>, <<"a","p","i">> >>,
    << <<"a","p","i","-","t","e","s","t","i","n","g">>, <<"t","e","s","t","i","n","g">> >>,
    << <<"d","a","i","l","y","-","n","o","t","e","s">>, <<"d","a","i","l","y">> >>,
    << <<"d","a","i","l","y","-","e","m","a","i","l">>, <<"e","m","a","i","l">> >>,
    << <<"e","m","a","i","l","-","s","u","m","m","a","r","y">>, <<"e","m","a","i","l">> >>,
    << <<"e","m","a","i","l","-","p","r","o","c","e","s","s","i","n","g">>, <<"e","m","a","i","l">> >>,
    << <<"e","m","a","i","l","-","m","a","r","k","e","t","i","n","g">>, <<"m","a","r","k","e","t","i","n","g">> >>,
    << <<"w","e","b","-","d","e","v","e","l","o","p","m","e","n","t">>, <<"d","e","v","e","l","o","p","m","e","n","t">> >>,
    << <<"w","e","b","-","p","r","e","s","e","n","c","e">>, <<"b","u","s","i","n","e","s","s","/","w","e","b","-","p","r","e","s","e","n","c","e">> >>,
    << <<"_","w","e","b","-","p","r","e","s","e","n","c","e","-","d","e","v","e","l","o","p","m","e","n","t">>, <<"b","u","s","i","n","e","s","s","/","w","e","b","-","p","r","e","s","e","n","c","e">> >>,
    << <<"_","p","e","r","s","o","n","a","l","_">>, <<"p","e","r","s","o","n","a","l">> >>,
    << <<"p","e","r","s","o","n","a","l","-","d","e","v","e","l","o","p","m","e","n","t">>, <<"p","e","r","s","o","n","a","l","/","d","e","v","e","l","o","p","m","e","n","t">> >>,
    << <<"p","r","o","j","e","c","t","-","m","a","n","a","g","e","m","e","n","t">>, <<"p","r","o","j","e","c","t">> >>,
    << <<"p","r","o","j","e","c","t","-","t","i","m","e","l","i","n","e">>, <<"p","r","o","j","e","c","t">> >>,
    << <<"c","o","n","t","e","n","t","-","s","t","r","a","t","e","g","y">>, <<"m","a","r","k","e","t","i","n","g","/","c","o","n","t","e","n","t">> >>,
    << <<"c","o","n","t","e","n","t","-","m","a","r","k","e","t","i","n","g">>, <<"m","a","r","k","e","t","i","n","g","/","c","o","n","t","e","n","t">> >>,
    << <<"c","o","n","t","e","n","t","-","c","a","l","e","n","d","a","r">>, <<"m","a","r","k","e","t","i","n","g","/","c","a","l","e","n","d","a","r">> >>,
    << <<"c","o","n","t","e","n","t","-","d","i","s","t","r","i","b","u","t","i","o","n">>, <<"m","a","r","k","e","t","i","n","g","/","d","i","s","t","r","i","b","u","t","i","o","n">> >>,
    << <<"m","a","r","k","e","t","i","n","g","-","s","t","r","a","t","e","g","y">>, <<"m","a","r","k","e","t","i","n","g","/","s","t","r","a","t","e","g","y">> >>,
    << <<"i","t","-","i","n","f","r","a","s","t","r","u","c","t","u","r","e">>, <<"i","n","f","r","a","s","t","r","u","c","t","u","r","e">> >>,
    << <<"s","e","r","v","e","r","-","m","a","n","a","g","e","m","e","n","t">>, <<"i","n","f","r","a","s","t","r","u","c","t","u","r","e">> >>,
    << <<"s","e","r","v","e","r","-","s","e","t","u","p">>, <<"i","n","f","r","a","s","t","r","u","c","t","u","r","e">> >>,
    << <<"d","a","t","a","-","p","r","o","c","e","s","s","i","n","g">>, <<"d","a","t","a">> >>,
    << <<"d","a","t","a","-","s","o","u","r","c","e","s">>, <<"d","a","t","a">> >>,
    << <<"d","a","t","a","-","s","e","c","u","r","i","t","y">>, <<"s","e","c","u","r","i","t","y">> >>,
    << <<"_","t","u","t","o","r","i","a","l","s","_">>, <<"t","u","t","o","r","i","a","l">> >>,
    << <<"_","b","u","s","i","n","e","s","s","-","f","o","r","m","a","t","i","o","n","_">>, <<"b","u","s","i","n","e","s","s","/","f","o","r","m","a","t","i","o","n">> >>,
    << <<"m","e","e","t","i","n","g","-","n","o","t","e","s">>, <<"m","e","e","t","i","n","g">> >>,
    << <<"m","e","e","t","i","n","g","s">>, <<"m","e","e","t","i","n","g">> >>,
    << <<"a","g","e","n","t","s">>, <<"a","i","/","a","g","e","n","t","s">> >>,
    << <<"t","e","m","p","l","a","t","e","s">>, <<"t","e","m","p","l","a","t","e">> >>,
    << <<"p","r","o","j","e","c","t","s">>, <<"p","r","o","j","e","c","t">> >>,
    << <<"t","a","s","k","s">>, <<"a","c","t","i","o","n","/","t","o","d","o">> >>,
    << <<"s","o","u","r","c","e","s">>, <<"s","o","u","r","c","e">> >>,
    << <<"s","y","s","t","e","m","s">>, <<"s","y","s","t","e","m">> >>,
    << <<"s","o","l","u","t","i","o","n","s">>, <<"s","o","l","u","t","i","o","n">> >>,
    << <<"r","e","c","o","m","m","e","n","d","a","t","i","o","n","s">>, <<"r","e","c","o","m","m","e","n","d","a","t","i","o","n">> >>,
    << <<"t","r","a","n","s","c","r","i","p","t","s">>, <<"t","r","a","n","s","c","r","i","p","t">> >>,
    << <<"d","i","s","c","u","s","s","i","o","n","s">>, <<"d","i","s","c","u","s","s","i","o","n">> >>,
    << <<"p","l","a","t","f","o","r","m","s">>, <<"p","l","a","t","f","o","r","m">> >>,
    << <<"f","r","a","m","e","w","o","r","k","s">>, <<"f","r","a","m","e","w","o","r","k">> >>,
    << <<"p","i","p","e","l","i","n","e","s">>, <<"p","i","p","e","l","i","n","e">> >>,
    << <<"s","e","r","v","e","r","s">>, <<"s","e","r","v","e","r">> >>,
    << <<"s","u","m","m","a","r","i","e","s">>, <<"s","u","m","m","a","r","y">> >>,
    << <<"c","o","n","f","e","r","e","n","c","e","s">>, <<"c","o","n","f","e","r","e","n","c","e">> >>,
    << <<"o","p","p","o","r","t","u","n","i","t","i","e","s">>, <<"o","p","p","o","r","t","u","n","i","t","y">> >>,
    << <<"d","a","t","a","s","e","t","s">>, <<"d","a","t","a","s","e","t">> >>,
    << <<"t","h","o","u","g","h","t","-","l","e","a","d","e","r","s","h","i","p">>, <<"a","u","t","h","o","r","i","t","y","-","b","u","i","l","d","i","n","g">> >>,
    << <<"t","e","c","h","n","i","c","a","l","-","a","u","t","h","o","r","i","t","y">>, <<"a","u","t","h","o","r","i","t","y","-","b","u","i","l","d","i","n","g">> >>,
    << <<"b","r","a","i","n","s","t","o","r","m","i","n","g">>, <<"i","d","e","a">> >>,
    << <<"s","t","r","a","t","e","g","i","c","-","p","l","a","n","n","i","n","g">>, <<"s","t","r","a","t","e","g","y">> >>,
    << <<"s","t","r","a","t","e","g","i","c","-","d","e","c","i","s","i","o","n","-","m","a","k","i","n","g">>, <<"s","t","r","a","t","e","g","y">> >>,
    << <<"s","t","r","a","t","e","g","i","c","-","o","v","e","r","v","i","e","w">>, <<"s","t","r","a","t","e","g","y">> >>,
    << <<"s","t","r","a","t","e","g","i","c","-","c","o","n","n","e","c","t","i","o","n","s">>, <<"s","t","r","a","t","e","g","y">> >>,
    << <<"a","n","t","h","r","o","p","i","c","_","b","l","o","g">>, <<"a","n","t","h","r","o","p","i","c">> >>,
    << <<"a","n","t","h","r","o","p","i","c","_","g","i","t","h","u","b">>, <<"a","n","t","h","r","o","p","i","c">> >>,
    << <<"g","i","t","h","u","b","_","t","o","p","i","c","_","-","_","m","c","p">>, <<"m","c","p">> >>,
    << <<"g","i","t","h","u","b","_","t","o","p","i","c","_","-","_","m","c","p","_","s","e","r","v","e","r">>, <<"m","c","p">> >>,
    << <<"m","c","p","_","r","e","d","d","i","t">>, <<"m","c","p">> >>,
    << <<"m","c","p","_","d","o","c","u","m","e","n","t","a","t","i","o","n">>, <<"m","c","p">> >>,
    << <<"m","c","p","_","g","i","t","h","u","b","_","d","i","s","c","u","s","s","i","o","n","s">>, <<"m","c","p">> >>,
    << <<"m","c","p","-","s","e","r","v","e","r">>, <<"m","c","p">> >>,
    << <<"n","p","m","_","-","_","m","c","p","_","p","a","c","k","a","g","e","s">>, <<"m","c","p">> >>,
    << <<"d","e","v",".","t","o","_","m","c","p","_","t","a","g">>, <<"m","c","p">> >>,
    << <<"m","e","d","i","u","m","_","-","_","m","c","p","_","t","o","p","i","c","s">>, <<"m","c","p">> >>,
    << <<"p","u","l","s","e","m","c","p","_","b","l","o","g">>, <<"p","u","l","s","e","m","c","p">> >>,
    << <<"s","y","s","t","e","m","_","f","i","l","e","s">>, <<"s","y","s","t","e","m">> >>,
    << <<"r","e","m","o","t","e","_","v","a","u","l","t","0","1">>, <<"r","e","m","o","t","e","-","s","y","n","c">> >>,
    << <<"g","r","a","p","h","-","d","b">>, <<"d","a","t","a","b","a","s","e">> >>,
    << <<"g","r","a","p","h","-","d","a","t","a","b","a","s","e","s">>, <<"d","a","t","a","b","a","s","e">> >>,
    << <<"v","e","c","t","o","r","-","d","a","t","a","b","a","s","e","s">>, <<"d","a","t","a","b","a","s","e">> >>,
    << <<"d","a","t","a","b","a","s","e","-","q","u","e","r","i","e","s">>, <<"d","a","t","a","b","a","s","e">> >>,
    << <<"d","a","t","a","b","a","s","e","-","u","p","d","a","t","e","s">>, <<"d","a","t","a","b","a","s","e">> >>,
    << <<"a","i","/","r","a","g">>, <<"a","i","/","e","m","b","e","d","d","i","n","g","s">> >>,
    << <<"a","g","e","n","t","i","c","-","r","a","g">>, <<"a","i","/","e","m","b","e","d","d","i","n","g","s">> >>,
    << <<"k","n","o","w","l","e","d","g","e","-","g","r","a","p","h">>, <<"g","r","a","p","h","r","a","g">> >>,
    << <<"k","n","o","w","l","e","d","g","e","-","n","e","t","w","o","r","k">>, <<"g","r","a","p","h","r","a","g">> >>,
    << <<"k","n","o","w","l","e","d","g","e","-","m","a","n","a","g","e","m","e","n","t">>, <<"k","n","o","w","l","e","d","g","e","-","b","a","s","e">> >>,
    << <<"f","a","m","i","l","y","-","p","r","o","j","e","c","t","s">>, <<"f","a","m","i","l","y","/","p","r","o","j","e","c","t","s">> >>,
    << <<"f","a","m","i","l","y","/","i","n","d","e","x">>, <<"f","a","m","i","l","y">> >>,
    << <<"v","i","s","u","a","l","-","a","s","s","e","t","s">>, <<"v","i","s","u","a","l","-","a","s","s","e","t","s">> >>,
    << <<"v","i","s","u","a","l","-","o","r","g","a","n","i","z","a","t","i","o","n">>, <<"v","i","s","u","a","l","-","a","s","s","e","t","s">> >>,
    << <<"v","i","s","u","a","l","-","l","e","a","r","n","i","n","g">>, <<"v","i","s","u","a","l","-","a","s","s","e","t","s">> >>,
    << <<"v","i","s","u","a","l","-","s","e","a","r","c","h">>, <<"v","i","s","u","a","l","-","a","s","s","e","t","s">> >>,
    << <<"i","m","a","g","e","-","g","a","l","l","e","r","y">>, <<"g","a","l","l","e","r","y">> >>,
    << <<"i","m","a","g","e","-","g","e","n","e","r","a","t","i","o","n">>, <<"a","i","/","t","o","o","l","s">> >>,
    << <<"s","c","r","e","e","n","s","h","o","t","s">>, <<"v","i","s","u","a","l","-","a","s","s","e","t","s">> >>,
    << <<"s","c","r","e","e","n","s","h","o","t","s","-","a","n","d","-","r","e","f","e","r","e","n","c","e","s">>, <<"v","i","s","u","a","l","-","a","s","s","e","t","s">> >>,
    << <<"i","n","f","o","g","r","a","p","h","i","c","s">>, <<"v","i","s","u","a","l","-","a","s","s","e","t","s">> >>,
    << <<"c","h","a","r","t","s">>, <<"v","i","s","u","a","l","-","a","s","s","e","t","s">> >>,
    << <<"i","m","a","g","e","s">>, <<"v","i","s","u","a","l","-","a","s","s","e","t","s">> >>,
    << <<"s","n","a","g","i","t","-","c","a","p","t","u","r","e","s">>, <<"v","i","s","u","a","l","-","a","s","s","e","t","s">> >>,
    << <<"a","n","a","l","y","t","i","c","s">>, <<"a","n","a","l","y","t","i","c","s">> >>,
    << <<"c","l","i","e","n","t","-","a","n","a","l","y","t","i","c","s">>, <<"a","n","a","l","y","t","i","c","s">> >>,
    << <<"r","e","v","e","n","u","e","-","a","n","a","l","y","t","i","c","s">>, <<"a","n","a","l","y","t","i","c","s">> >>,
    << <<"p","e","r","f","o","r","m","a","n","c","e","-","m","e","t","r","i","c","s">>, <<"a","n","a","l","y","t","i","c","s">> >>,
    << <<"f","i","n","a","n","c","i","a","l","-","a","n","a","l","y","s","i","s">>, <<"f","i","n","a","n","c","e">> >>,
    << <<"r","o","i","-","a","n","a","l","y","s","i","s">>, <<"r","o","i">> >>,
    << <<"r","o","i","-","c","a","l","c","u","l","a","t","o","r">>, <<"r","o","i">> >>,
    << <<"c","o","m","p","l","e","x","i","t","y","-","a","n","a","l","y","s","i","s">>, <<"a","n","a","l","y","s","i","s">> >>,
    << <<"c","o","n","n","e","c","t","i","o","n","-","a","n","a","l","y","s","i","s">>, <<"a","n","a","l","y","s","i","s">> >>,
    << <<"n","e","t","w","o","r","k","-","a","n","a","l","y","s","i","s">>, <<"a","n","a","l","y","s","i","s">> >>,
    << <<"s","c","h","e","m","a","-","a","n","a","l","y","s","i","s">>, <<"a","n","a","l","y","s","i","s">> >>,
    << <<"c","o","m","p","e","t","i","t","i","v","e","-","i","n","t","e","l","l","i","g","e","n","c","e">>, <<"a","n","a","l","y","s","i","s">> >>,
    << <<"c","o","m","p","e","t","i","t","o","r","-","t","r","a","c","k","i","n","g">>, <<"a","n","a","l","y","s","i","s">> >>,
    << <<"w","o","r","k","f","l","o","w">>, <<"w","o","r","k","f","l","o","w","s">> >>,
    << <<"-","-","o","l","l","a","m","a","-","d","e","e","p","-","r","e","s","e","a","r","c","h">>, <<"o","l","l","a","m","a">> >>,
    << <<"s","e","c","o","n","d","-","o","p","i","n","i","o","n","-","d","d","s">>, <<"d","e","n","t","a","l">> >>,
    << <<"a","u","s","t","i","n","-","l","a","n","g","c","h","a","i","n">>, <<"c","o","m","m","u","n","i","t","y">> >>,
    << <<"t","h","e","-","b","u","i","l","d">>, <<"b","u","i","l","d">> >>,
    << <<"m","c","p","c","e","n","t","r","a","l",".","i","o">>, <<"m","c","p","c","e","n","t","r","a","l">> >>
  >>

(***************************************************************************)
(* Python values that yaml.safe_load returns and the scripts handle: a     *)
(* record whose field t is the type and whose field for that type holds    *)
(* the value (s: str, n: int, items: list, pairs: dict)                    *)
(***************************************************************************)
PyStr(s) == [t |-> "str", s |-> s, n |-> 0, items |-> <<>>, pairs |-> <<>>]

PyInt(n) == [t |-> "int", s |-> <<>>, n |-> n, items |-> <<>>, pairs |-> <<>>]

PyNone == [t |-> "none", s |-> <<>>, n |-> 0, items |-> <<>>, pairs |-> <<>>]

PyList(items) == [t |-> "list", s |-> <<>>, n |-> 0, items |-> items, pairs |-> <<>>]

\* a dict keeps insertion order: a sequence of <<key, value>> items
PyDict(pairs) == [t |-> "dict", s |-> <<>>, n |-> 0, items |-> <<>>, pairs |-> pairs]

\* truth value of a Python object (the `not tags`, `if normalized` tests)
Truthy(x) ==
  CASE x.t = "none" -> FALSE
    [] x.t = "int" -> x.n # 0
    [] x.t = "str" -> x.s # <<>>
    [] x.t = "list" -> x.items # <<>>
    [] OTHER -> x.pairs # <<>>

\* Python == on these values
PyEq(a, b) == a = b

(***************************************************************************)
(* TagStandardizer.normalize_tag                                           *)
(***************************************************************************)
KeptPrefixes ==
  { <<"a","i","/">>, <<"c","l","i","e","n","t","/">>,
    <<"l","e","a","r","n","i","n","g","/">>, <<"s","t","a","t","u","s","/">>,
    <<"a","c","t","i","o","n","/">> }

PathCategories ==
  { <<"a","i">>, <<"c","l","i","e","n","t">>, <<"l","e","a","r","n","i","n","g">>,
    <<"b","u","s","i","n","e","s","s">>, <<"p","r","o","j","e","c","t">> }

DailyPrefix == <<"d","a","i","l","y","/">>

\* re.match(r'\d{4}/\d{2}', tag): anchored at the start only
MatchesYearMonth(tag) ==
  /\ Len(tag) >= 7
  /\ \A i \in {1, 2, 3, 4, 6, 7} : tag[i] \in DigitChars
  /\ tag[5] = "/"

\* tag.strip(), then one leading '#' removed
StripHash(tag) ==
  LET s == Strip(tag) IN IF StartsWith(s, <<"#">>) THEN Tail(s) ELSE s

\* the default rule: tag.lower().replace(' ', '-')
DefaultNormalize(tag) == StrReplaceChar(StrLower(tag), " ", "-")

normalize_tag(raw) ==
  LET tag == StripHash(raw) IN
    IF HasKey(standard_mappings, tag) THEN Lookup(standard_mappings, tag)
    ELSE IF MatchesYearMonth(tag) THEN DailyPrefix \o tag
    ELSE IF /\ FindChar(tag, "/") # 0
            /\ ~ \E p \in KeptPrefixes : StartsWith(tag, p)
            /\ StrLower(Split(tag, "/")[1]) \in PathCategories
         THEN StrLower(Split(tag, "/")[1]) \o <<"/">>
                \o StrLower(Join(Tail(Split(tag, "/")), "/"))
    ELSE DefaultNormalize(tag)

(***************************************************************************)
(* EnhancedTagStandardizer.enhance_tag                                     *)
(***************************************************************************)
enhance_tag(raw) ==
  LET tag == StripHash(raw) IN
    IF HasKey(enhanced_mappings, tag) THEN Lookup(enhanced_mappings, tag)
    ELSE DefaultNormalize(tag)

(***************************************************************************)
(* TagStandardizer.standardize_tags                                        *)
(***************************************************************************)
\* StandardizeLoop with the `not in standardized` test left out
RECURSIVE StandardizeLoop_keepDuplicates(_, _)
StandardizeLoop_keepDuplicates(items, standardized) ==
  IF items = <<>> THEN standardized
  ELSE LET tag == Head(items)
           normalized == PyStr(normalize_tag(tag.s))
       IN IF tag.t = "str" /\ Truthy(normalized)
          THEN StandardizeLoop_keepDuplicates(Tail(items), Append(standardized, normalized))
          ELSE StandardizeLoop_keepDuplicates(Tail(items), standardized)

\* the for loop over a list: non-strings are skipped, empty and already
\* collected results are dropped
RECURSIVE StandardizeLoop(_, _)
StandardizeLoop(items, standardized) ==
  IF items = <<>> THEN standardized
  ELSE LET tag == Head(items)
           normalized == PyStr(normalize_tag(tag.s))
       IN IF /\ tag.t = "str"
             /\ Truthy(normalized)
             /\ ~ \E i \in 1..Len(standardized) : PyEq(standardized[i], normalized)
          THEN StandardizeLoop(Tail(items), Append(standardized, normalized))
          ELSE StandardizeLoop(Tail(items), standardized)

standardize_tags(tags) ==
  IF ~ Truthy(tags) THEN PyList(<<>>)
  ELSE IF tags.t = "str" THEN PyList(<<PyStr(normalize_tag(tags.s))>>)
  ELSE IF tags.t = "list" THEN PyList(StandardizeLoop(tags.items, <<>>))
  ELSE PyList(<<>>)

(***************************************************************************)
(* PyYAML, as far as the scripts use it: yaml.safe_load of a frontmatter   *)
(* block and yaml.dump(..., default_flow_style=False, sort_keys=False).    *)
(* The block grammar covered is: a block mapping of plain keys whose       *)
(* values are plain scalars, single-quoted scalars (which may span lines   *)
(* and are folded), block sequences of scalars, [] and {}; a top-level     *)
(* block sequence; a top-level plain scalar; blank and comment lines.      *)
(* Every other shape is kept out of the input sets below.                  *)
(***************************************************************************)
YamlError == [ok |-> FALSE, val |-> PyNone, rest |-> <<>>]

YamlOk(val, rest) == [ok |-> TRUE, val |-> val, rest |-> rest]

\* a line the scanner skips between tokens: empty, blank or a comment
IsBlankLine(line) == LET s == LStrip(line) IN s = <<>> \/ s[1] = "#"

\* "- item" or a lone "-": a block sequence entry at column 0
IsSeqEntry(line) ==
  /\ line # <<>> /\ line[1] = "-"
  /\ (Len(line) = 1 \/ line[2] = " ")

\* index of the ':' that ends a plain key ("key: value" or "key:"), 0 if none
KeyColon(line) ==
  LET hits == {k \in 1..Len(line) : line[k] = ":" /\ (k = Len(line) \/ line[k+1] = " ")} IN
    IF hits = {} THEN 0 ELSE CHOOSE k \in hits : \A j \in hits : k <= j

\* a block mapping entry at column 0 with a plain key
IsMapEntry(line) ==
  /\ line # <<>>
  /\ line[1] \notin {" ", "\t", "'", "[", "]", "{", "}", "#", ",", "&", "*", "!", "|", ">", "%", "@"}
  /\ ~ IsSeqEntry(line)
  /\ KeyColon(line) > 1

AllDigits(s) == s # <<>> /\ \A i \in 1..Len(s) : s[i] \in DigitChars

RECURSIVE DigitsToInt(_)
DigitsToInt(s) ==
  IF s = <<>> THEN 0
  ELSE 10 * DigitsToInt(SubSeq(s, 1, Len(s) - 1))
         + (CHOOSE d \in 0..9 : <<"0","1","2","3","4","5","6","7","8","9">>[d + 1] = s[Len(s)])

NullWords == { <<"n","u","l","l">>, <<"N","u","l","l">>, <<"N","U","L","L">>, <<"~">> }

\* the implicit resolver on a plain scalar: int, null or str
Resolve(s) ==
  IF AllDigits(s) /\ (Len(s) = 1 \/ s[1] # "0") THEN PyInt(DigitsToInt(s))
  ELSE IF s \in NullWords THEN PyNone
  ELSE PyStr(s)

\* a plain scalar ends at " #"; text after it is a comment
CutComment(s) ==
  LET k == FindSub(s, <<" ","#">>, 1) IN IF k = 0 THEN s ELSE SubSeq(s, 1, k - 1)

\* scans the inside of a single-quoted scalar on one line: '' is a quote
\* character, a lone ' closes the scalar
RECURSIVE ScanQuoted(_, _)
ScanQuoted(s, acc) ==
  IF s = <<>> THEN [closed |-> FALSE, text |-> acc, after |-> <<>>]
  ELSE IF s[1] = "'"
       THEN IF Len(s) >= 2 /\ s[2] = "'"
            THEN ScanQuoted(StrFrom(s, 3), Append(acc, "'"))
            ELSE [closed |-> TRUE, text |-> acc, after |-> Tail(s)]
  ELSE ScanQuoted(Tail(s), Append(acc, s[1]))

\* line folding inside a quoted scalar: one break is a space, n+1 breaks
\* are n newlines
FoldSep(blanks) == IF blanks = 0 THEN <<" ">> ELSE [i \in 1..blanks |-> NL]

\* continuation lines of a single-quoted scalar that did not close on its
\* first line; running out of lines is a scanner error
RECURSIVE QuotedContinue(_, _, _)
QuotedContinue(acc, blanks, lines) ==
  IF lines = <<>> THEN YamlError
  ELSE IF Strip(Head(lines)) = <<>> THEN QuotedContinue(acc, blanks + 1, Tail(lines))
  ELSE LET sc == ScanQuoted(LStrip(Head(lines)), <<>>) IN
         IF sc.closed
         THEN IF IsBlankLine(sc.after)
              THEN YamlOk(PyStr(acc \o FoldSep(blanks) \o sc.text), Tail(lines))
              ELSE YamlError
         ELSE QuotedContinue(acc \o FoldSep(blanks) \o RStrip(sc.text), 0, Tail(lines))

\* a scalar value that starts on this line: single-quoted, [] , {} or plain
ParseScalar(s, more) ==
  IF s[1] = "'"
  THEN LET sc == ScanQuoted(Tail(s), <<>>) IN
         IF sc.closed
         THEN IF IsBlankLine(sc.after) THEN YamlOk(PyStr(sc.text), more) ELSE YamlError
         ELSE QuotedContinue(RStrip(sc.text), 0, more)
  ELSE IF s = <<"[","]">> THEN YamlOk(PyList(<<>>), more)
  ELSE IF s = <<"{","}">> THEN YamlOk(PyDict(<<>>), more)
  ELSE LET p == RStrip(CutComment(s)) IN
         IF KeyColon(p) # 0 THEN YamlError   \* mapping values are not allowed here
         ELSE YamlOk(Resolve(p), more)

\* block sequence entries at column 0, up to the first line that is none
RECURSIVE ParseSeq(_, _)
ParseSeq(lines, items) ==
  IF lines = <<>> THEN YamlOk(PyList(items), <<>>)
  ELSE IF IsBlankLine(Head(lines)) THEN ParseSeq(Tail(lines), items)
  ELSE IF ~ IsSeqEntry(Head(lines)) THEN YamlOk(PyList(items), lines)
  ELSE LET s == Strip(Tail(Head(lines))) IN
         IF s = <<>> THEN ParseSeq(Tail(lines), Append(items, PyNone))
         ELSE LET r == ParseScalar(s, Tail(lines)) IN
                IF r.ok THEN ParseSeq(r.rest, Append(items, r.val)) ELSE YamlError

\* d[k] = v on an insertion-ordered dict
DictSet(items, k, v) ==
  IF HasKey(items, k)
  THEN [i \in 1..Len(items) |-> IF items[i][1] = k THEN <<k, v>> ELSE items[i]]
  ELSE Append(items, <<k, v>>)

\* d.get(k, default)
DictGet(items, k, default) == IF HasKey(items, k) THEN Lookup(items, k) ELSE default

\* the entries of a block mapping at column 0
RECURSIVE ParseMap(_, _)
ParseMap(lines, items) ==
  IF lines = <<>> THEN YamlOk(PyDict(items), <<>>)
  ELSE IF IsBlankLine(Head(lines)) THEN ParseMap(Tail(lines), items)
  ELSE IF ~ IsMapEntry(Head(lines)) THEN YamlError
  ELSE LET line == Head(lines)
           k == KeyColon(line)
           key == RStrip(SubSeq(line, 1, k - 1))
           s == Strip(StrFrom(line, k + 1))
           r == IF s = <<>> \/ s[1] = "#"
                THEN LET q == ParseSeq(Tail(lines), <<>>) IN
                       IF q.ok /\ q.val.items = <<>> THEN YamlOk(PyNone, q.rest) ELSE q
                ELSE ParseScalar(s, Tail(lines))
       IN IF r.ok THEN ParseMap(r.rest, DictSet(items, key, r.val)) ELSE YamlError

RECURSIVE AllBlank(_)
AllBlank(lines) == lines = <<>> \/ (IsBlankLine(Head(lines)) /\ AllBlank(Tail(lines)))

\* a top-level plain scalar: following lines continue it (folded) until a
\* comment line ends it; a line with a "key:" indicator cannot follow a
\* multi-line scalar, and nothing but blank lines can follow its end
RECURSIVE PlainContinue(_, _, _)
PlainContinue(acc, blanks, lines) ==
  IF lines = <<>> THEN YamlOk(PyStr(acc), <<>>)
  ELSE IF Strip(Head(lines)) = <<>> THEN PlainContinue(acc, blanks + 1, Tail(lines))
  ELSE IF IsBlankLine(Head(lines))
       THEN IF AllBlank(lines) THEN YamlOk(PyStr(acc), <<>>) ELSE YamlError
  ELSE IF KeyColon(Head(lines)) # 0 THEN YamlError
  ELSE PlainContinue(acc \o FoldSep(blanks) \o Strip(Head(lines)), 0, Tail(lines))

RECURSIVE ParseDoc(_)
ParseDoc(lines) ==
  IF lines = <<>> THEN YamlOk(PyNone, <<>>)
  ELSE IF IsBlankLine(Head(lines)) THEN ParseDoc(Tail(lines))
  ELSE IF IsSeqEntry(Head(lines))
       THEN LET r == ParseSeq(lines, <<>>) IN
              IF r.ok /\ AllBlank(r.rest) THEN r ELSE YamlError
  ELSE IF IsMapEntry(Head(lines)) THEN ParseMap(lines, <<>>)
  ELSE IF Head(lines)[1] \in {"'", "[", "{"}
       THEN LET r == ParseScalar(Strip(Head(lines)), Tail(lines)) IN
              IF r.ok /\ AllBlank(r.rest) THEN r ELSE YamlError
  ELSE IF AllBlank(Tail(lines)) THEN YamlOk(Resolve(Strip(Head(lines))), <<>>)
  ELSE PlainContinue(Strip(Head(lines)), 0, Tail(lines))

\* yaml.safe_load(text): ok = FALSE stands for a raised yaml.YAMLError
yaml_safe_load(text) == ParseDoc(Split(text, NL))

(***************************************************************************)
(* yaml.dump                                                               *)
(***************************************************************************)
\* a string the emitter may not write as a plain scalar in block context
NeedsQuote(s) ==
  \/ s = <<>>
  \/ s[1] \in {" ", "#", ",", "[", "]", "{", "}", "&", "*", "!", "|", ">", "'", "%", "@"}
  \/ s[Len(s)] = " "
  \/ (s[1] \in {"-", "?", ":"} /\ (Len(s) = 1 \/ s[2] = " "))
  \/ StartsWith(s, <<"-","-","-">>) \/ StartsWith(s, <<".",".",".">>)
  \/ KeyColon(s) # 0
  \/ FindSub(s, <<" ","#">>, 1) # 0
  \/ Resolve(s).t # "str"

RECURSIVE EscapeQuotes(_)
EscapeQuotes(s) ==
  IF s = <<>> THEN <<>>
  ELSE IF s[1] = "'" THEN <<"'", "'">> \o EscapeQuotes(Tail(s))
  ELSE <<s[1]>> \o EscapeQuotes(Tail(s))

\* write_single_quoted on the lines of a multi-line string: a run of n
\* breaks is written as n+1 breaks, and the next line is indented by two
RECURSIVE EmitFoldedRest(_)
EmitFoldedRest(parts) ==
  IF Len(parts) > 1 /\ parts[1] = <<>> THEN <<NL>> \o EmitFoldedRest(Tail(parts))
  ELSE <<NL, " ", " ">> \o EscapeQuotes(parts[1])
         \o (IF Len(parts) > 1 THEN <<NL>> \o EmitFoldedRest(Tail(parts)) ELSE <<>>)

EmitStr(s) ==
  IF FindChar(s, NL) # 0
  THEN LET parts == Split(s, NL) IN
         <<"'">> \o EscapeQuotes(parts[1]) \o <<NL>> \o EmitFoldedRest(Tail(parts)) \o <<"'">>
  ELSE IF NeedsQuote(s) THEN <<"'">> \o EscapeQuotes(s) \o <<"'">>
  ELSE s

RECURSIVE IntToDigits(_)
IntToDigits(n) ==
  IF n < 10 THEN << <<"0","1","2","3","4","5","6","7","8","9">>[n + 1] >>
  ELSE Append(IntToDigits(n \div 10), <<"0","1","2","3","4","5","6","7","8","9">>[(n % 10) + 1])

EmitScalar(x) ==
  CASE x.t = "str" -> EmitStr(x.s)
    [] x.t = "int" -> IntToDigits(x.n)
    [] x.t = "none" -> <<"n","u","l","l">>
    [] x.t = "list" -> <<"[","]">>
    [] OTHER -> <<"{","}">>

RECURSIVE EmitSeq(_)
EmitSeq(items) ==
  IF items = <<>> THEN <<>>
  ELSE <<"-", " ">> \o EmitScalar(Head(items)) \o <<NL>> \o EmitSeq(Tail(items))

RECURSIVE EmitMap(_)
EmitMap(items) ==
  IF items = <<>> THEN <<>>
  ELSE LET key == Head(items)[1]
           val == Head(items)[2]
       IN EmitStr(key) \o <<":">>
            \o (IF val.t = "list" /\ val.items # <<>>
                THEN <<NL>> \o EmitSeq(val.items)
                ELSE <<" ">> \o EmitScalar(val) \o <<NL>>)
            \o EmitMap(Tail(items))

\* yaml.dump(frontmatter, default_flow_style=False, sort_keys=False)
yaml_dump(d) == IF d.pairs = <<>> THEN <<"{","}",NL>> ELSE EmitMap(d.pairs)

(***************************************************************************)
(* TagStandardizer.extract_frontmatter (EnhancedTagStandardizer has the    *)
(* same method): returns <<frontmatter, remaining_content>>, where a       *)
(* frontmatter of PyNone is Python's None                                  *)
(***************************************************************************)
Delimiter == <<"-","-","-">>

\* index into lines (1-based) of the first line after the first whose
\* strip() is '---', 0 if there is none
FindEnd(lines) ==
  LET hits == {i \in 2..Len(lines) : Strip(lines[i]) = Delimiter} IN
    IF hits = {} THEN 0 ELSE CHOOSE i \in hits : \A j \in hits : i <= j

extract_frontmatter(content) ==
  IF ~ StartsWith(Strip(content), Delimiter) THEN <<PyNone, content>>
  ELSE LET lines == Split(content, NL)
           end_idx == FindEnd(lines)
       IN IF Len(lines) < 3 THEN <<PyNone, content>>
          ELSE IF end_idx = 0 THEN <<PyNone, content>>
          ELSE LET loaded == yaml_safe_load(Join(SubSeq(lines, 2, end_idx - 1), NL)) IN
                 IF loaded.ok
                 THEN <<loaded.val, Join(SubSeq(lines, end_idx + 1, Len(lines)), NL)>>
                 ELSE <<PyNone, content>>

KeyTags == <<"t","a","g","s">>

KeyTitle == <<"t","i","t","l","e">>

KeyNote == <<"n","o","t","e">>

\* new_content = f"---\n{new_frontmatter}---\n{remaining_content}"
Serialize(frontmatter, remaining_content) ==
  Delimiter \o <<NL>> \o yaml_dump(frontmatter) \o Delimiter \o <<NL>> \o remaining_content

(***************************************************************************)
(* Bounds and input sets of the tag functions                              *)
(***************************************************************************)
MaxTagLen == 3

MaxTags == 3

TagAlphabet == {"#", " ", "L", "l", "o", "g", "/"}

\* every string over TagAlphabet of length at most MaxTagLen
ShortTags == UNION {[1..n -> TagAlphabet] : n \in 0..MaxTagLen}

TagAI == <<"A","I">>

TagAiLower == <<"a","i">>

TagBusinessStrategy ==
  <<"B","u","s","i","n","e","s","s","-","S","t","r","a","t","e","g","y">>

TagBusinessStrategySlash ==
  <<"b","u","s","i","n","e","s","s","/","s","t","r","a","t","e","g","y">>

TagDatedNotes == <<"2","0","2","4","/","0","1"," ","N","o","t","e","s">>

TagStems ==
  { TagAI, TagAiLower, TagBusinessStrategy,
    <<"b","u","s","i","n","e","s","s","-","s","t","r","a","t","e","g","y">>,
    <<"L","L","M">>, <<"L","l","m">>, <<"a","i","/","l","l","m">>,
    <<"c","l","a","u","d","e">>,
    <<"M","o","d","e","l"," ","c","o","n","t","e","x","t"," ","p","r","o","t","o","c","o","l">>,
    <<"2","0","2","4","/","0","1">>,
    TagDatedNotes,
    <<"A","I","/","D","e","e","p"," ","L","e","a","r","n","i","n","g">>,
    <<"P","r","o","j","e","c","t","s","/","A","l","p","h","a">>,
    <<"c","l","i","e","n","t","/","A","c","m","e">>,
    <<"m","y"," ","t","a","g">> }

TagPrefixes == { <<>>, <<"#">>, <<"#","#">>, <<" ">>, <<" ","#">> }

TagSuffixes == { <<>>, <<" ">> }

TagInputs ==
  ShortTags \cup {p \o s \o x : p \in TagPrefixes, s \in TagStems, x \in TagSuffixes}

\* entries of a tags list: strings and one non-string
TagItems ==
  { PyStr(TagAI), PyStr(TagAiLower), PyStr(TagBusinessStrategy),
    PyStr(<<"#">>), PyStr(<<" ","a","i"," ">>), PyStr(<<"L","L","M">>),
    PyStr(TagDatedNotes), PyInt(7) }

\* values of the `tags` key: a list, a single string, nothing, a number
TagsValues ==
  UNION {{PyList(l) : l \in [1..n -> TagItems]} : n \in 0..MaxTags}
    \cup {PyStr(TagAI), PyStr(<<"#">>), PyStr(<<>>), PyNone, PyInt(7)}

(***************************************************************************)
(* The vault: MaxFiles markdown files at fixed paths                       *)
(***************************************************************************)
MaxFiles == 2

VaultPaths ==
  << <<"D","a","i","l","y"," ","N","o","t","e","s","/","2","0","2","4","-","0","1","-","0","2",".","m","d">>,
     <<"D","a","i","l","y"," ","N","o","t","e","s","/","2","0","2","4","-","0","1","-","0","3",".","m","d">>,
     <<"R","e","s","e","a","r","c","h","/","i","d","e","a",".","m","d">>,
     <<"D","a","i","l","y"," ","N","o","t","e","s","/","2","0","2","4","-","0","1","-","0","5",".","m","d">> >>

FileIds == 1..MaxFiles

\* os.stat(file_path) creation date and datetime.now(), as '%Y-%m-%d'
CreatedDate == <<"2","0","2","4","-","0","1","-","0","2">>

Today == <<"2","0","2","4","-","0","2","-","0","1">>

KeyRelated == <<"r","e","l","a","t","e","d">>

DocNeedsRewrite == <<"-","-","-","\n","t","a","g","s",":","\n","-"," ","A","I","\n","-","-","-","\n","b","o","d","y">>

DocNormalized == <<"-","-","-","\n","t","a","g","s",":","\n","-"," ","a","i","\n","-","-","-","\n","b","o","d","y">>

DocNoFrontmatter == <<"#"," ","T","i","t","l","e","\n","b","o","d","y">>

DocNoClosingDelimiter == <<"-","-","-","\n","t","a","g","s",":"," ","[","a","\n","b","o","d","y">>

DocMalformedYaml == <<"-","-","-","\n","t","a","g","s",":"," ","'","x","\n","-","-","-","\n","b","o","d","y">>

DocEmptyBlock == <<"-","-","-","\n","-","-","-","\n","b","o","d","y">>

DocListBlock == <<"-","-","-","\n","-"," ","A","I","\n","-","-","-","\n","b","o","d","y">>

DocStringTags == <<"-","-","-","\n","t","i","t","l","e",":"," ","x","\n","t","a","g","s",":"," ","A","I","\n","-","-","-","\n","b","o","d","y">>

DocRelated == <<"-","-","-","\n","r","e","l","a","t","e","d",":","\n","-"," ","a","\n","t","a","g","s",":","\n","-"," ","a","i","\n","-"," ","A","I","\n","-","-","-","\n","m","e","e","t","i","n","g">>

DocPool ==
  { DocNeedsRewrite, DocNormalized, DocNoFrontmatter, DocNoClosingDelimiter,
    DocMalformedYaml, DocEmptyBlock, DocListBlock, DocStringTags, DocRelated }

(***************************************************************************)
(* pathlib                                                                 *)
(***************************************************************************)
\* Path.parts of a relative path
PathParts(path) == Split(path, "/")

\* Path.name
PathName(path) == PathParts(path)[Len(PathParts(path))]

\* Path.with_suffix(''): the path without its '.md'
WithoutSuffix(path) ==
  LET k == FindSub(path, <<".","m","d">>, 1) IN
    IF k # 0 /\ k = Len(path) - 2 THEN SubSeq(path, 1, k - 1) ELSE path

\* Path.stem
PathStem(path) == WithoutSuffix(PathName(path))

\* `needle in haystack` on strings
Contains(haystack, needle) == FindSub(haystack, needle, 1) # 0

(***************************************************************************)
(* TagStandardizer.process_file up to its write                            *)
(***************************************************************************)
\* self.tag_stats[normalized] += 1 for every tag standardize_tags appends
\* (only in its list branch); tag_stats is a sequence of <<tag, count>>
RECURSIVE CountTags(_, _)
CountTags(stats, added) ==
  IF added = <<>> THEN stats
  ELSE CountTags(DictSet(stats, Head(added).s, DictGet(stats, Head(added).s, 0) + 1),
                 Tail(added))

TagStatsAfter(stats, current_tags) ==
  IF Truthy(current_tags) /\ current_tags.t = "list"
  THEN CountTags(stats, standardize_tags(current_tags).items)
  ELSE stats

\* `if not dry_run:` guards the write
WritesToDisk_always(dry) == TRUE

WritesToDisk(dry) == ~ dry

\* What process_file decides for the content it has read:
\*   raised  - an exception reached `except Exception` (frontmatter.get on
\*             a frontmatter that is not a dict)
\*   rewrite - standardized_tags != current_tags
\*   new     - the content it would write
TagPlanCompare(frontmatter, remaining_content, current_tags, standardized_tags) ==
  IF ~ PyEq(standardized_tags, current_tags)
  THEN [raised |-> FALSE, rewrite |-> TRUE,
        new |-> Serialize(PyDict(DictSet(frontmatter.pairs, KeyTags, standardized_tags)),
                          remaining_content),
        counted |-> current_tags]
  ELSE [raised |-> FALSE, rewrite |-> FALSE, new |-> <<>>, counted |-> current_tags]

\* standardized_tags = self.standardize_tags(current_tags)
TagPlanTags(frontmatter, remaining_content, current_tags) ==
  TagPlanCompare(frontmatter, remaining_content, current_tags, standardize_tags(current_tags))

\* if frontmatter is None: return False; current_tags = frontmatter.get('tags', [])
TagPlanParsed(frontmatter, remaining_content) ==
  IF frontmatter = PyNone
  THEN [raised |-> FALSE, rewrite |-> FALSE, new |-> <<>>, counted |-> PyNone]
  ELSE IF frontmatter.t # "dict"
  THEN [raised |-> TRUE, rewrite |-> FALSE, new |-> <<>>, counted |-> PyNone]
  ELSE TagPlanTags(frontmatter, remaining_content,
                   DictGet(frontmatter.pairs, KeyTags, PyList(<<>>)))

TagPlanUnpack(parsed) == TagPlanParsed(parsed[1], parsed[2])

\* frontmatter, remaining_content = self.extract_frontmatter(content)
TagPlan(content) == TagPlanUnpack(extract_frontmatter(content))

(***************************************************************************)
(* MetadataAdder                                                           *)
(***************************************************************************)
\* has_frontmatter
has_frontmatter(content) == StartsWith(Strip(content), Delimiter)

\* determine_file_type
determine_file_type(path) ==
  LET path_str == StrLower(path) IN
    IF Contains(path_str, <<"m","o","c">>) \/ Contains(path_str, <<"m","a","p"," ","o","f"," ","c","o","n","t","e","n","t">>)
      THEN <<"m","a","p","-","o","f","-","c","o","n","t","e","n","t">>
    ELSE IF Contains(path_str, <<"d","a","i","l","y"," ","n","o","t","e","s">>) \/ Contains(path_str, <<"d","a","i","l","y"," ","n","o","t","e">>)
      THEN <<"d","a","i","l","y">>
    ELSE IF Contains(path_str, <<"r","e","s","e","a","r","c","h">>) \/ Contains(path_str, <<"a","r","t","i","c","l","e","s">>)
      THEN <<"r","e","s","e","a","r","c","h">>
    ELSE IF Contains(path_str, <<"c","l","i","e","n","t">>) \/ Contains(path_str, <<"c","a","m","r","o","h","n"," ","l","l","c">>)
      THEN <<"c","l","i","e","n","t","-","w","o","r","k">>
    ELSE IF Contains(path_str, <<"t","u","t","o","r","i","a","l">>) \/ Contains(path_str, <<"c","o","u","r","s","e">>)
      THEN <<"t","u","t","o","r","i","a","l">>
    ELSE IF Contains(path_str, <<"i","d","e","a">>) THEN <<"i","d","e","a">>
    ELSE IF Contains(path_str, <<"m","e","e","t","i","n","g">>) THEN <<"m","e","e","t","i","n","g">>
    ELSE IF Contains(path_str, <<"e","m","a","i","l">>) THEN <<"e","m","a","i","l">>
    ELSE <<"n","o","t","e">>

\* tag_mapping of generate_tags_from_path, in dict order
PathTagMapping ==
  << << <<"a","i"," ","d","e","v","e","l","o","p","m","e","n","t">>, <<"a","i","/","d","e","v","e","l","o","p","m","e","n","t">> >>,
     << <<"a","i"," ","a","r","t","i","c","l","e","s">>, <<"a","i","/","r","e","s","e","a","r","c","h">> >>,
     << <<"a","i"," ","c","o","u","r","s","e","s">>, <<"t","u","t","o","r","i","a","l","/","c","o","u","r","s","e">> >>,
     << <<"a","i"," ","i","d","e","a","s">>, <<"i","d","e","a">> >>,
     << <<"c","a","m","r","o","h","n"," ","l","l","c">>, <<"c","l","i","e","n","t">> >>,
     << <<"d","a","i","l","y"," ","n","o","t","e","s">>, <<"d","a","i","l","y">> >>,
     << <<"c","l","i","p","p","i","n","g","s">>, <<"c","l","i","p","p","i","n","g","s">> >>,
     << <<"m","c","p">>, <<"m","c","p">> >>,
     << <<"l","a","n","g","c","h","a","i","n">>, <<"l","a","n","g","c","h","a","i","n">> >>,
     << <<"g","r","a","p","h","r","a","g">>, <<"g","r","a","p","h","r","a","g">> >> >>

\* the tag of the first mapping key contained in a directory name, if any
RECURSIVE PartTags(_, _)
PartTags(part_lower, mapping) ==
  IF mapping = <<>> THEN <<>>
  ELSE IF Contains(part_lower, Head(mapping)[1]) THEN <<Head(mapping)[2]>>
  ELSE PartTags(part_lower, Tail(mapping))

RECURSIVE PathTags(_)
PathTags(parts) ==
  IF parts = <<>> THEN <<>>
  ELSE PartTags(StrLower(Head(parts)), PathTagMapping) \o PathTags(Tail(parts))

\* '%Y/%m' of a '%Y-%m-%d' date
YearMonth(date) == SubSeq(date, 1, 4) \o <<"/">> \o SubSeq(date, 6, 7)

\* the tags collected before list(set(tags))
CollectedTags(path) ==
  LET parts == PathParts(path)
      tags == PathTags(SubSeq(parts, 1, Len(parts) - 1))
  IN IF \E k \in 1..Len(tags) : tags[k] = <<"d","a","i","l","y">>
     THEN Append(tags, <<"d","a","i","l","y","/">> \o YearMonth(CreatedDate))
     ELSE tags

\* generate_tags_from_path: list(set(tags)) keeps each tag once, in an order
\* the set decides; every order is a possible result
generate_tags_from_path(path) ==
  LET tagset == {CollectedTags(path)[k] : k \in 1..Len(CollectedTags(path))} IN
    {l \in [1..Cardinality(tagset) -> tagset] : \A a, b \in DOMAIN l : a # b => l[a] # l[b]}

\* repr() of a list of strings, as the f-string writes it
RECURSIVE ReprItems(_)
ReprItems(l) ==
  IF l = <<>> THEN <<>>
  ELSE <<"'">> \o Head(l) \o <<"'">>
         \o (IF Len(l) > 1 THEN <<",", " ">> ELSE <<>>) \o ReprItems(Tail(l))

ReprList(l) == <<"[">> \o ReprItems(l) \o <<"]">>

\* create_frontmatter, for one order of the tags
create_frontmatter(path, tags) ==
  Delimiter \o <<NL>>
    \o <<"t","a","g","s",":"," ">> \o ReprList(tags) \o <<NL>>
    \o <<"t","y","p","e",":"," ">> \o determine_file_type(path) \o <<NL>>
    \o <<"c","r","e","a","t","e","d",":"," ">> \o CreatedDate \o <<NL>>
    \o <<"m","o","d","i","f","i","e","d",":"," ">> \o Today \o <<NL>>
    \o <<"s","t","a","t","u","s",":"," ","a","c","t","i","v","e","\n","r","e","l","a","t","e","d",":"," ","[","]","\n","a","l","i","a","s","e","s",":"," ","[","]","\n","-","-","-","\n","\n">>

(***************************************************************************)
(* DailyNotesConnector                                                     *)
(***************************************************************************)
\* re.match(r'\d{4}-\d{2}-\d{2}', stem): anchored at the start only
IsDateStem(stem) ==
  /\ Len(stem) >= 10
  /\ \A k \in {1, 2, 3, 4, 6, 7, 9, 10} : stem[k] \in DigitChars
  /\ stem[5] = "-" /\ stem[8] = "-"

\* find_daily_notes: the four glob patterns, then the date test on the stem
IsDailyNote(path) ==
  LET parts == PathParts(path)
      n == Len(parts)
  IN /\ \/ n = 2 /\ parts[1] \in {<<"D","a","i","l","y"," ","N","o","t","e","s">>, <<"D","a","i","l","y"," ","E","m","a","i","l">>}
        \/ n = 3 /\ parts[1] = <<"R","E","M","O","T","E","_","V","A","U","L","T","0","1">> /\ parts[2] = <<"D","a","i","l","y"," ","N","o","t","e","s">>
        \/ n >= 3 /\ parts[1] = <<"_","P","E","R","S","O","N","A","L","_">> /\ parts[2] = <<"J","O","U","R","N","A","L">>
     /\ PathName(path) # PathStem(path)
     /\ IsDateStem(PathStem(path))

\* DailyNotesConnector.extract_frontmatter on the content read: an empty
\* dict and the whole content when the block is missing or fails to load
DailyLoaded(loaded, content, end_index) ==
  IF loaded.ok THEN <<loaded.val, StrFrom(content, end_index + 3)>>
  ELSE <<PyDict(<<>>), content>>

DailyBlock(content, end_index) ==
  IF end_index = 0 THEN <<PyDict(<<>>), content>>
  ELSE DailyLoaded(yaml_safe_load(Strip(SubSeq(content, 4, end_index - 1))), content, end_index)

daily_extract_frontmatter(content) ==
  IF StartsWith(content, Delimiter)
  THEN DailyBlock(content, FindSub(content, Delimiter, 4))
  ELSE <<PyDict(<<>>), content>>

\* the patterns of __init__, as alternatives; analyze_content searches them
\* in content.lower()
TopicPatterns ==
  << << "project", {<<"p","r","o","j","e","c","t">>, <<"A","I"," ","I","D","E","A","S">>, <<"i","d","e","a">>, <<"e","x","p","e","r","i","m","e","n","t">>, <<"b","u","i","l","d">>, <<"d","e","v","e","l","o","p">>} >>,
     << "meeting", {<<"m","e","e","t","i","n","g">>, <<"c","a","l","l">>, <<"d","i","s","c","u","s","s","i","o","n">>, <<"c","l","i","e","n","t">>, <<"c","o","n","s","u","l","t","a","t","i","o","n">>} >>,
     << "technical", {<<"M","C","P">>, <<"L","a","n","g","C","h","a","i","n">>, <<"G","r","a","p","h","R","A","G">>, <<"A","I">>, <<"M","L">>, <<"m","o","d","e","l">>, <<"a","g","e","n","t">>, <<"t","o","o","l">>} >>,
     << "client", {<<"c","l","i","e","n","t">>, <<"c","o","n","s","u","l","t","i","n","g">>, <<"b","u","s","i","n","e","s","s">>, <<"C","a","m","R","o","h","n">>} >>,
     << "personal", {<<"f","a","m","i","l","y">>, <<"p","e","r","s","o","n","a","l">>, <<"r","e","f","l","e","c","t","i","o","n">>, <<"s","t","o","i","c">>, <<"g","o","a","l">>} >>,
     << "research", {<<"r","e","s","e","a","r","c","h">>, <<"p","a","p","e","r">>, <<"s","t","u","d","y">>, <<"a","r","t","i","c","l","e">>, <<"d","o","c","u","m","e","n","t","a","t","i","o","n">>} >>,
     << "community", {<<"A","u","s","t","i","n">>, <<"L","a","n","g","C","h","a","i","n">>, <<"m","e","e","t","u","p">>, <<"c","o","m","m","u","n","i","t","y">>, <<"c","o","n","f","e","r","e","n","c","e">>} >> >>

TopicNames == {TopicPatterns[k][1] : k \in 1..Len(TopicPatterns)}

\* analyze_content: the topics whose count is positive
analyze_content(content) ==
  LET content_lower == StrLower(content) IN
    {TopicPatterns[k][1] : k \in {j \in 1..Len(TopicPatterns) :
        \E alt \in TopicPatterns[j][2] : Contains(content_lower, alt)}}

\* find_related_content looks for topic directories ('AI IDEAS', 'CamRohn
\* LLC', ...) under the vault; the vault modelled here has none
find_related_content == <<>>

\* (current_date + timedelta(days=off)).strftime('%Y-%m-%d'), for dates
\* whose neighbours lie in the same month
ShiftDay(stem, off) ==
  LET day == DigitsToInt(SubSeq(stem, 9, 10)) + off IN
    SubSeq(stem, 1, 8) \o (IF day < 10 THEN <<"0">> ELSE <<>>) \o IntToDigits(day)

\* the first note of all_notes whose stem contains target_str, if any
RECURSIVE FirstNoteWith(_, _)
FirstNoteWith(target_str, all_notes) ==
  IF all_notes = <<>> THEN <<>>
  ELSE IF Contains(PathStem(VaultPaths[Head(all_notes)]), target_str) THEN <<Head(all_notes)>>
  ELSE FirstNoteWith(target_str, Tail(all_notes))

\* link and comment of a related entry
RelatedEntry(path, relation_type) ==
  <<"[","[">> \o WithoutSuffix(path) \o <<"]","]"," ","#"," ">> \o relation_type

\* new_related of process_daily_note: the previous day first, the next day
\* after it ("Same week" entries are found but never added)
new_related(f, all_notes) ==
  LET stem == PathStem(VaultPaths[f])
      prev == FirstNoteWith(ShiftDay(stem, -1), all_notes)
      next == FirstNoteWith(ShiftDay(stem, 1), all_notes)
  IN (IF prev = <<>> THEN <<>>
      ELSE <<PyStr(RelatedEntry(VaultPaths[prev[1]], <<"P","r","e","v","i","o","u","s"," ","d","a","y">>))>>)
     \o (IF next = <<>> THEN <<>>
         ELSE <<PyStr(RelatedEntry(VaultPaths[next[1]], <<"N","e","x","t"," ","d","a","y">>))>>)
     \o find_related_content

\* merge and deduplicate, keeping the first occurrence
RECURSIVE Dedupe(_, _)
Dedupe(combined, all_related) ==
  IF combined = <<>> THEN all_related
  ELSE IF \E k \in 1..Len(all_related) : PyEq(all_related[k], Head(combined))
       THEN Dedupe(Tail(combined), all_related)
  ELSE Dedupe(Tail(combined), Append(all_related, Head(combined)))

\* string order of keys made of lowercase letters
RECURSIVE StrLess(_, _)
StrLess(a, b) ==
  IF b = <<>> THEN FALSE
  ELSE IF a = <<>> THEN TRUE
  ELSE LET x == CHOOSE k \in 1..26 : LowerChars[k] = a[1]
           y == CHOOSE k \in 1..26 : LowerChars[k] = b[1]
       IN IF x # y THEN x < y ELSE StrLess(Tail(a), Tail(b))

\* yaml.dump sorts the keys unless sort_keys=False is passed
RECURSIVE SortPairs(_)
SortPairs(pairs) ==
  IF pairs = <<>> THEN <<>>
  ELSE LET m == CHOOSE k \in 1..Len(pairs) :
                  \A j \in 1..Len(pairs) : j # k => StrLess(pairs[k][1], pairs[j][1])
       IN <<pairs[m]>> \o SortPairs([j \in 1..(Len(pairs) - 1) |->
                                       IF j < m THEN pairs[j] ELSE pairs[j + 1]])

\* update_frontmatter: the content it writes
update_frontmatter(frontmatter, body) ==
  Delimiter \o <<NL>> \o yaml_dump(PyDict(SortPairs(frontmatter.pairs)))
    \o Delimiter \o <<NL>> \o body

\* What process_daily_note decides for the content it has read
DailyPlanMerge(frontmatter, body, found, existing_related) ==
  [raised |-> FALSE, rewrite |-> TRUE,
   new |-> update_frontmatter(
             PyDict(DictSet(frontmatter.pairs, KeyRelated,
                            PyList(IF existing_related.t = "list"
                                   THEN Dedupe(existing_related.items \o found, <<>>)
                                   ELSE found))),
             body),
   links |-> Len(found),
   topics |-> analyze_content(body)]

\* if new_related: existing_related = frontmatter.get('related', [])
DailyPlanFound(frontmatter, body, found) ==
  IF found = <<>>
  THEN [raised |-> FALSE, rewrite |-> FALSE, new |-> <<>>, links |-> 0,
        topics |-> analyze_content(body)]
  ELSE IF frontmatter.t # "dict"
  THEN [raised |-> TRUE, rewrite |-> FALSE, new |-> <<>>, links |-> 0, topics |-> {}]
  ELSE DailyPlanMerge(frontmatter, body, found,
                      DictGet(frontmatter.pairs, KeyRelated, PyList(<<>>)))

DailyPlanUnpack(parsed, found) == DailyPlanFound(parsed[1], parsed[2], found)

\* frontmatter, body = self.extract_frontmatter(file_path)
DailyPlan(f, content, all_notes) ==
  DailyPlanUnpack(daily_extract_frontmatter(content), new_related(f, all_notes))

(***************************************************************************)
(* The file system                                                         *)
(***************************************************************************)
\* open(file_path, 'w') truncates the file; a write that fails after it
\* leaves the file empty or holding a prefix of the new content
PartialWrites(new_content) == { <<>>, SubSeq(new_content, 1, Len(new_content) \div 2) }

(***************************************************************************)
(* State                                                                   *)
(***************************************************************************)
VARIABLES
  fn,            \* the tag function under evaluation
  tag,           \* its argument: a raw tag
  normalized,    \* fn(tag)
  renormalized,  \* fn(fn(tag))
  tags,          \* the argument of standardize_tags
  standardized,  \* standardize_tags(tags)
  tag_step,      \* how far the evaluation has come
  fm_meta,       \* a metadata map to serialize
  fm_body,       \* the body to serialize after it
  fm_text,       \* the text of a document: given, or serialized
  out_meta,      \* extract_frontmatter(fm_text)[0]
  out_body,      \* extract_frontmatter(fm_text)[1]
  fm_step,       \* how far the round trip has come
  tool,          \* the vault tool that runs
  dry_run,       \* its --dry-run flag
  disk,          \* content of every file of the vault
  disk0,         \* content of every file before the run
  intended,      \* the new content the run decided to write to a file
  opened,        \* files the run has opened for writing
  cursor,        \* position of the loop in the corpus
  pc,            \* "loop", "writing" (a file is open), "done", "aborted"
  stats,         \* the counters of the tool
  visited,       \* files whose processing has begun
  io_failed,     \* files whose read, open or write raised
  tag_stats,     \* TagStandardizer.tag_stats
  connection_map,\* DailyNotesConnector.connection_map
  pending,       \* what the open file is about to receive
  moc_files,     \* the files MOCs are written to: path -> [exists, content]
  moc_before,    \* moc_files before the last call of create_moc_file
  moc_first,     \* path -> the content the first call that returned True wrote
  moc_path,      \* output_path of the last call
  moc_content,   \* the content the last call generated
  moc_result,    \* what the last call returned
  moc_calls,     \* number of calls so far
  man_pc,        \* how far generate_components_json has come
  tree,          \* the files under cli-tool, as relative paths
  plugins,       \* the plugin names of .claude-plugin/marketplace.json
  report,        \* component paths listed in security-report.json
  remote,        \* the rows of the component_downloads table
  alt_table,     \* the rows of the download_stats table
  security_outcome, \* how the security audit ended
  security_metadata, \* what run_security_validation returned
  page,          \* pages of component_downloads fetched so far
  all_downloads, \* the rows fetched so far
  fetch_error,   \* the error the stats fetch met, if any
  download_stats, \* what fetch_download_stats returned
  components_data, \* the manifest: component type -> list of entries
  output,        \* what became of docs/components.json
  conn_strategy, \* the suggestion strategy that runs
  conn_docs,     \* the notes of the search directories: title -> content
  conn_docs0,    \* the notes when the strategy started
  conn_unreadable, \* the notes whose open for reading raises
  conn_report,   \* the lines of Link_Suggestions_Report.md
  connections,   \* the result of find_keyword_connections
  conn_pc,       \* how far the strategy has come
  conn_cursor,   \* the connection or report line at hand
  current_entity, \* the entity of the last header of the report
  connections_made, \* the counter of the links added
  links_added,   \* the links add_link_to_file has written: <<from, to>>
  hook,          \* the hook that runs
  valid_json,    \* whether stdin holds valid JSON
  tool_name,     \* input_data.get('tool_name')
  command,       \* tool_input.get('command')
  current_branch, \* what git branch --show-current prints, '' when it fails
  hook_pc,       \* start or done
  permissionDecision, \* the decision the hook prints, none when it prints nothing
  hook_exit,     \* the exit status of the hook
  pdf_path,      \* the input path: whether it exists, is a file, its suffix, what the file holds
  pdf_args,      \* the options --summary, --verbose and --output
  pdf_raised,    \* the class of the exception under way, none when there is none
  pdf_pc,        \* how far main has come
  pdf_written,   \* where the JSON went: stdout, file or none
  exit_code,     \* what main returns, -1 before it returns
  enh_disk,      \* EnhancedTagStandardizer run: content of each markdown file
  enh_disk0,     \* the contents before the run
  enh_cursor,    \* position of process_vault in its walk
  enh_pc,        \* loop, writing (file opened with 'w'), done
  enh_pending,   \* new_content of the write in progress
  enh_failed,    \* files whose open, read or write raised
  files_updated, \* self.files_updated
  launch_pc,     \* e2b-launcher main: create, set_timeout, a command stage, except, finally, exited
  components_to_install, \* sys.argv[2] is not empty
  retry_count,   \* retry_count of the creation loop
  sbx,           \* the local sbx: none or the sandbox handle
  create_calls,  \* calls of Sandbox.create so far
  created,       \* sandboxes Sandbox.create has returned
  kill_calls,    \* calls of kill() on a sandbox
  commands_run,  \* calls of sbx.commands.run that reached a sandbox
  launch_error,  \* str(e) of the last exception caught by the creation loop or by main
  to_download,   \* files of the find listing still to download
  launch_exit,   \* exit status of the process, -1 while running
  mon_pc,        \* e2b-monitor enhanced_sandbox_execution: index of the next step in MonitorSteps
  mon_args,      \* components_to_install is not empty, both API keys given
  mon_sbx,       \* the local sbx: none or the sandbox handle
  mon_kill_calls, \* calls of sbx.kill()
  mon_commands,  \* calls of sbx.commands.run
  mon_returned,  \* running, True or False (the return value)
  link_strategy, \* the script whose add_link_to_file is called: keyword or entity
  link_file,     \* content of the note the calls are made on
  link_file0,    \* its content before the first call
  link_calls,    \* calls of add_link_to_file so far
  link_call,     \* the last call: its link target, the content it found, its return value
  pg_pc,         \* fetch_download_stats paging loop: request or done
  pg_rows,       \* rows of the component_downloads table
  pg_offset,     \* offset
  pg_requests,   \* requests made so far (page of the for loop)
  pg_range,      \* the Range header of the last request
  pg_response,   \* the last response: status, rows of the batch, total of content-range
  pg_fetched     \* len(all_downloads)

tagVars == <<fn, tag, normalized, renormalized, tags, standardized, tag_step>>

fmVars == <<fm_meta, fm_body, fm_text, out_meta, out_body, fm_step>>

vaultVars ==
  <<tool, dry_run, disk, disk0, intended, opened, cursor, pc, stats, visited,
    io_failed, tag_stats, connection_map, pending>>

TagFunctions == {"normalize_tag", "enhance_tag"}

ApplyTagFunction(f, t) ==
  IF f = "normalize_tag" THEN normalize_tag(t) ELSE enhance_tag(t)

TagIdle ==
  /\ fn = "none" /\ tag = <<>> /\ normalized = <<>> /\ renormalized = <<>>
  /\ tags = PyNone /\ standardized = PyNone /\ tag_step = "idle"

FmIdle ==
  /\ fm_meta = PyNone /\ fm_body = <<>> /\ fm_text = <<>>
  /\ out_meta = PyNone /\ out_body = <<>> /\ fm_step = "idle"

NoStats == [processed |-> 0, updated |-> 0, skipped |-> 0, errors |-> 0, connections |-> 0]

NoPending == [new |-> <<>>, links |-> 0, topics |-> {}]

VaultIdle ==
  /\ tool = "none" /\ dry_run = FALSE /\ disk = <<>> /\ disk0 = <<>>
  /\ intended = <<>> /\ opened = {} /\ cursor = 0 /\ pc = "idle"
  /\ stats = NoStats /\ visited = {} /\ io_failed = {}
  /\ tag_stats = <<>> /\ connection_map = <<>> /\ pending = NoPending

mocVars == <<moc_files, moc_before, moc_first, moc_path, moc_content, moc_result, moc_calls>>

MocIdle ==
  /\ moc_files = <<>> /\ moc_before = <<>> /\ moc_first = <<>>
  /\ moc_path = <<>> /\ moc_content = <<>> /\ moc_result = "idle" /\ moc_calls = 0

manVars == <<man_pc, tree, plugins, report, remote, alt_table, security_outcome, security_metadata, page, all_downloads, fetch_error, download_stats, components_data, output>>

ManIdle ==
  /\ man_pc = "idle" /\ tree = {} /\ plugins = <<>> /\ report = <<>> /\ remote = <<>> /\ alt_table = <<>>
  /\ security_outcome = "idle" /\ security_metadata = <<>>
  /\ page = 0 /\ all_downloads = <<>> /\ fetch_error = "idle" /\ download_stats = <<>>
  /\ components_data = <<>> /\ output = "idle"

connVars == <<conn_strategy, conn_docs, conn_docs0, conn_unreadable, conn_report, connections, conn_pc, conn_cursor, current_entity, connections_made, links_added>>

ConnIdle ==
  /\ conn_strategy = "none"
  /\ conn_docs = <<>>
  /\ conn_docs0 = <<>>
  /\ conn_unreadable = {}
  /\ conn_report = <<>>
  /\ connections = <<>>
  /\ conn_pc = "idle"
  /\ conn_cursor = 0
  /\ current_entity = <<>>
  /\ connections_made = 0
  /\ links_added = {}

hookVars == <<hook, valid_json, tool_name, command, current_branch, hook_pc, permissionDecision, hook_exit>>

HookIdle ==
  /\ hook = "none"
  /\ valid_json = FALSE
  /\ tool_name = <<>>
  /\ command = <<>>
  /\ current_branch = <<>>
  /\ hook_pc = "idle"
  /\ permissionDecision = "none"
  /\ hook_exit = -1

pdfVars == <<pdf_path, pdf_args, pdf_raised, pdf_pc, pdf_written, exit_code>>

PdfIdle ==
  /\ pdf_path = [exists |-> FALSE, is_file |-> FALSE, suffix |-> "", content |-> "none"]
  /\ pdf_args = [summary |-> FALSE, verbose |-> FALSE, out |-> "none"]
  /\ pdf_raised = "none"
  /\ pdf_pc = "idle"
  /\ pdf_written = "none"
  /\ exit_code = -1

enhancedVars == <<enh_disk, enh_disk0, enh_cursor, enh_pc, enh_pending, enh_failed, files_updated>>

EnhancedIdle ==
  /\ enh_disk = <<>>
  /\ enh_disk0 = <<>>
  /\ enh_cursor = 0
  /\ enh_pc = "idle"
  /\ enh_pending = <<>>
  /\ enh_failed = {}
  /\ files_updated = 0

launcherVars == <<launch_pc, components_to_install, retry_count, sbx, create_calls, created, kill_calls, commands_run, launch_error, to_download, launch_exit>>

LauncherIdle ==
  /\ launch_pc = "idle"
  /\ components_to_install = FALSE
  /\ retry_count = 0
  /\ sbx = "none"
  /\ create_calls = 0
  /\ created = 0
  /\ kill_calls = 0
  /\ commands_run = 0
  /\ launch_error = <<>>
  /\ to_download = 0
  /\ launch_exit = -1

monitorVars == <<mon_pc, mon_args, mon_sbx, mon_kill_calls, mon_commands, mon_returned>>

MonitorIdle ==
  /\ mon_pc = 0
  /\ mon_args = [components |-> FALSE, keys |-> FALSE]
  /\ mon_sbx = "none"
  /\ mon_kill_calls = 0
  /\ mon_commands = 0
  /\ mon_returned = "idle"

linkVars == <<link_strategy, link_file, link_file0, link_calls, link_call>>

LinkIdle ==
  /\ link_strategy = "idle"
  /\ link_file = <<>>
  /\ link_file0 = <<>>
  /\ link_calls = 0
  /\ link_call = [target |-> <<>>, before |-> <<>>, returned |-> FALSE]

pagingVars == <<pg_pc, pg_rows, pg_offset, pg_requests, pg_range, pg_response, pg_fetched>>

PagingIdle ==
  /\ pg_pc = "idle"
  /\ pg_rows = 0
  /\ pg_offset = 0
  /\ pg_requests = 0
  /\ pg_range = <<0, 0>>
  /\ pg_response = [status |-> 0, rows |-> 0, total |-> [kind |-> "none", n |-> 0]]
  /\ pg_fetched = 0

\* the variables an action of one specification leaves alone, and the
\* values they have while that specification runs
otherThanTags == <<fmVars, vaultVars, mocVars, manVars, connVars, hookVars, pdfVars, enhancedVars, launcherVars, monitorVars, linkVars, pagingVars>>

otherThanFm == <<tagVars, vaultVars, mocVars, manVars, connVars, hookVars, pdfVars, enhancedVars, launcherVars, monitorVars, linkVars, pagingVars>>

otherThanVault == <<tagVars, fmVars, mocVars, manVars, connVars, hookVars, pdfVars, enhancedVars, launcherVars, monitorVars, linkVars, pagingVars>>

IdleButTags == FmIdle /\ VaultIdle /\ MocIdle /\ ManIdle /\ ConnIdle /\ HookIdle /\ PdfIdle /\ EnhancedIdle /\ LauncherIdle /\ MonitorIdle /\ LinkIdle /\ PagingIdle

IdleButFm == TagIdle /\ VaultIdle /\ MocIdle /\ ManIdle /\ ConnIdle /\ HookIdle /\ PdfIdle /\ EnhancedIdle /\ LauncherIdle /\ MonitorIdle /\ LinkIdle /\ PagingIdle

IdleButVault == TagIdle /\ FmIdle /\ MocIdle /\ ManIdle /\ ConnIdle /\ HookIdle /\ PdfIdle /\ EnhancedIdle /\ LauncherIdle /\ MonitorIdle /\ LinkIdle /\ PagingIdle

otherThanMoc == <<tagVars, fmVars, vaultVars, manVars, connVars, hookVars, pdfVars, enhancedVars, launcherVars, monitorVars, linkVars, pagingVars>>

IdleButMoc == TagIdle /\ FmIdle /\ VaultIdle /\ ManIdle /\ ConnIdle /\ HookIdle /\ PdfIdle /\ EnhancedIdle /\ LauncherIdle /\ MonitorIdle /\ LinkIdle /\ PagingIdle

otherThanMan == <<tagVars, fmVars, vaultVars, mocVars, connVars, hookVars, pdfVars, enhancedVars, launcherVars, monitorVars, linkVars, pagingVars>>

IdleButMan == TagIdle /\ FmIdle /\ VaultIdle /\ MocIdle /\ ConnIdle /\ HookIdle /\ PdfIdle /\ EnhancedIdle /\ LauncherIdle /\ MonitorIdle /\ LinkIdle /\ PagingIdle

otherThanConn == <<tagVars, fmVars, vaultVars, mocVars, manVars, hookVars, pdfVars, enhancedVars, launcherVars, monitorVars, linkVars, pagingVars>>

IdleButConn == TagIdle /\ FmIdle /\ VaultIdle /\ MocIdle /\ ManIdle /\ HookIdle /\ PdfIdle /\ EnhancedIdle /\ LauncherIdle /\ MonitorIdle /\ LinkIdle /\ PagingIdle

otherThanHook == <<tagVars, fmVars, vaultVars, mocVars, manVars, connVars, pdfVars, enhancedVars, launcherVars, monitorVars, linkVars, pagingVars>>

IdleButHook == TagIdle /\ FmIdle /\ VaultIdle /\ MocIdle /\ ManIdle /\ ConnIdle /\ PdfIdle /\ EnhancedIdle /\ LauncherIdle /\ MonitorIdle /\ LinkIdle /\ PagingIdle

otherThanPdf == <<tagVars, fmVars, vaultVars, mocVars, manVars, connVars, hookVars, enhancedVars, launcherVars, monitorVars, linkVars, pagingVars>>

IdleButPdf == TagIdle /\ FmIdle /\ VaultIdle /\ MocIdle /\ ManIdle /\ ConnIdle /\ HookIdle /\ EnhancedIdle /\ LauncherIdle /\ MonitorIdle /\ LinkIdle /\ PagingIdle

otherThanEnhanced == <<tagVars, fmVars, vaultVars, mocVars, manVars, connVars, hookVars, pdfVars, launcherVars, monitorVars, linkVars, pagingVars>>

IdleButEnhanced == TagIdle /\ FmIdle /\ VaultIdle /\ MocIdle /\ ManIdle /\ ConnIdle /\ HookIdle /\ PdfIdle /\ LauncherIdle /\ MonitorIdle /\ LinkIdle /\ PagingIdle

otherThanLauncher == <<tagVars, fmVars, vaultVars, mocVars, manVars, connVars, hookVars, pdfVars, enhancedVars, monitorVars, linkVars, pagingVars>>

IdleButLauncher == TagIdle /\ FmIdle /\ VaultIdle /\ MocIdle /\ ManIdle /\ ConnIdle /\ HookIdle /\ PdfIdle /\ EnhancedIdle /\ MonitorIdle /\ LinkIdle /\ PagingIdle

otherThanMonitor == <<tagVars, fmVars, vaultVars, mocVars, manVars, connVars, hookVars, pdfVars, enhancedVars, launcherVars, linkVars, pagingVars>>

IdleButMonitor == TagIdle /\ FmIdle /\ VaultIdle /\ MocIdle /\ ManIdle /\ ConnIdle /\ HookIdle /\ PdfIdle /\ EnhancedIdle /\ LauncherIdle /\ LinkIdle /\ PagingIdle

otherThanLink == <<tagVars, fmVars, vaultVars, mocVars, manVars, connVars, hookVars, pdfVars, enhancedVars, launcherVars, monitorVars, pagingVars>>

IdleButLink == TagIdle /\ FmIdle /\ VaultIdle /\ MocIdle /\ ManIdle /\ ConnIdle /\ HookIdle /\ PdfIdle /\ EnhancedIdle /\ LauncherIdle /\ MonitorIdle /\ PagingIdle

otherThanPaging == <<tagVars, fmVars, vaultVars, mocVars, manVars, connVars, hookVars, pdfVars, enhancedVars, launcherVars, monitorVars, linkVars>>

IdleButPaging == TagIdle /\ FmIdle /\ VaultIdle /\ MocIdle /\ ManIdle /\ ConnIdle /\ HookIdle /\ PdfIdle /\ EnhancedIdle /\ LauncherIdle /\ MonitorIdle /\ LinkIdle

vars == <<tagVars, fmVars, vaultVars, mocVars, manVars, connVars, hookVars, pdfVars, enhancedVars, launcherVars, monitorVars, linkVars, pagingVars>>

(***************************************************************************)
(* Evaluation of the tag functions on every input of the bounded sets      *)
(***************************************************************************)
InitTags ==
  /\ normalized = <<>> /\ renormalized = <<>> /\ standardized = PyNone
  /\ tag_step = "input"
  /\ IdleButTags
  /\ \/ fn \in TagFunctions /\ tag \in TagInputs /\ tags = PyNone
     \/ fn = "standardize_tags" /\ tag = <<>> /\ tags \in TagsValues

\* normalized = self.normalize_tag(tag)  /  enhanced = self.enhance_tag(tag)
NormalizeTag ==
  /\ tag_step = "input" /\ fn \in TagFunctions
  /\ normalized' = ApplyTagFunction(fn, tag)
  /\ tag_step' = "normalized"
  /\ UNCHANGED <<fn, tag, renormalized, tags, standardized>>
  /\ UNCHANGED otherThanTags

\* the result is fed to the same function again, as a second run over a
\* vault does with the tags the first run wrote
NormalizeAgain ==
  /\ tag_step = "normalized"
  /\ renormalized' = ApplyTagFunction(fn, normalized)
  /\ tag_step' = "renormalized"
  /\ UNCHANGED <<fn, tag, normalized, tags, standardized>>
  /\ UNCHANGED otherThanTags

\* standardized_tags = self.standardize_tags(current_tags)
StandardizeTags ==
  /\ tag_step = "input" /\ fn = "standardize_tags"
  /\ standardized' = standardize_tags(tags)
  /\ tag_step' = "standardized"
  /\ UNCHANGED <<fn, tag, normalized, renormalized, tags>>
  /\ UNCHANGED otherThanTags

NextTags == NormalizeTag \/ NormalizeAgain \/ StandardizeTags

SpecTags == InitTags /\ [][NextTags]_vars

(***************************************************************************)
(* Bounds and input sets of the frontmatter functions                      *)
(***************************************************************************)
MaxKeys == 2

MaxLines == 4

MetaKeys == {KeyTags, KeyTitle, KeyNote}

StrWithDelimiterLine == <<"x", NL, "-","-","-", NL, "y">>

MetaValues ==
  { PyStr(<<"x">>), PyStr(<<"#","A","I">>), PyStr(<<"a",":"," ","b">>),
    PyStr(<<"i","t","'","s">>), PyStr(<<"5">>), PyStr(<<>>),
    PyStr(<<"x", NL, "y">>), PyStr(StrWithDelimiterLine),
    PyList(<<>>), PyList(<<PyStr(TagAI)>>),
    PyList(<<PyStr(TagAiLower), PyStr(<<"#","x">>)>>),
    PyInt(5), PyNone }

\* dicts of at most MaxKeys distinct keys, in every order
MetaMaps ==
  UNION {{PyDict([i \in 1..n |-> <<ks[i], vs[i]>>]) :
            ks \in {f \in [1..n -> MetaKeys] : \A i, j \in 1..n : i # j => f[i] # f[j]},
            vs \in [1..n -> MetaValues]} : n \in 0..MaxKeys}

Bodies ==
  { <<>>, <<"b","o","d","y">>, <<NL, "#"," ","T", NL>>,
    <<"a", NL, "-","-","-", NL, "b">> }

LinePool ==
  { Delimiter, <<" ","-","-","-">>, <<>>, <<"t","a","g","s",":">>, <<"-"," ","A","I">>,
    <<"a",":"," ","'","x">>, <<"t","e","x","t">>, <<"#"," ","c">> }

\* every text of at most MaxLines lines of LinePool
RawTexts == UNION {{Join(ls, NL) : ls \in [1..n -> LinePool]} : n \in 0..MaxLines}

(***************************************************************************)
(* Parsing and serialising frontmatter on every input of the bounded sets  *)
(***************************************************************************)
InitFrontmatter ==
  /\ IdleButFm
  /\ out_meta = PyNone /\ out_body = <<>>
  /\ \/ fm_step = "pair" /\ fm_meta \in MetaMaps /\ fm_body \in Bodies /\ fm_text = <<>>
     \/ fm_step = "text" /\ fm_meta = PyNone /\ fm_body = <<>> /\ fm_text \in RawTexts

\* new_content = f"---\n{new_frontmatter}---\n{remaining_content}"
SerializeDocument ==
  /\ fm_step = "pair"
  /\ fm_text' = Serialize(fm_meta, fm_body)
  /\ fm_step' = "serialized"
  /\ UNCHANGED <<fm_meta, fm_body, out_meta, out_body>>
  /\ UNCHANGED otherThanFm

\* frontmatter, remaining_content = self.extract_frontmatter(content)
ExtractFrontmatter ==
  /\ fm_step \in {"text", "serialized"}
  /\ out_meta' = extract_frontmatter(fm_text)[1]
  /\ out_body' = extract_frontmatter(fm_text)[2]
  /\ fm_step' = IF fm_step = "text" THEN "parsed" ELSE "reparsed"
  /\ UNCHANGED <<fm_meta, fm_body, fm_text>>
  /\ UNCHANGED otherThanFm

NextFrontmatter == SerializeDocument \/ ExtractFrontmatter

SpecFrontmatter == InitFrontmatter /\ [][NextFrontmatter]_vars

(***************************************************************************)
(* One run of a vault tool over the files, with reads and writes that may  *)
(* fail.  A rewrite takes two steps: open(file_path, 'w') empties the      *)
(* file, then the write and close store the new content or fail.           *)
(***************************************************************************)
Tools == {"TagStandardizer", "MetadataAdder", "DailyNotesConnector"}

RECURSIVE DailyNotesFrom(_)
DailyNotesFrom(f) ==
  IF f > MaxFiles THEN <<>>
  ELSE (IF IsDailyNote(VaultPaths[f]) THEN <<f>> ELSE <<>>) \o DailyNotesFrom(f + 1)

\* the files the loop of a tool visits, in its order: rglob('*.md') for
\* the standardizer and the adder, sorted(daily_notes) for the connector
Corpus(t) ==
  IF t = "DailyNotesConnector" THEN DailyNotesFrom(1) ELSE [f \in 1..MaxFiles |-> f]

Bump(s, field) == [s EXCEPT ![field] = @ + 1]

\* self.connection_map[topic].append(file_path.stem) for the topics found
MapTopics(map, topics, f) ==
  [t \in TopicNames |-> IF t \in topics THEN Append(map[t], PathStem(VaultPaths[f])) ELSE map[t]]

Init ==
  /\ IdleButVault
  /\ tool \in Tools
  /\ dry_run \in (IF tool = "DailyNotesConnector" THEN {FALSE} ELSE BOOLEAN)
  /\ disk \in [FileIds -> DocPool]
  /\ disk0 = disk
  /\ intended = [f \in FileIds |-> <<>>]
  /\ opened = {}
  /\ cursor = 1
  /\ pc = "loop"
  /\ stats = NoStats
  /\ visited = {}
  /\ io_failed = {}
  /\ tag_stats = <<>>
  /\ connection_map = [t \in TopicNames |-> <<>>]
  /\ pending = NoPending

InLoop(t) == tool = t /\ pc = "loop" /\ cursor <= Len(Corpus(t))

CurrentFile == Corpus(tool)[cursor]

\* open(file_path, 'w') succeeded: the file is empty until the write lands
OpenForWrite(f, plan) ==
  /\ disk' = [disk EXCEPT ![f] = <<>>]
  /\ intended' = [intended EXCEPT ![f] = plan.new]
  /\ opened' = opened \cup {f}
  /\ pending' = plan
  /\ pc' = "writing"
  /\ UNCHANGED cursor

\* the file is left as it is and the loop goes on to the next one
NextFile ==
  /\ cursor' = cursor + 1
  /\ UNCHANGED <<disk, intended, opened, pending, pc>>

\* TagStandardizer.process_vault: one iteration, i.e. process_file up to
\* its return or up to the open for writing
TagStandardizerProcessFile ==
  /\ InLoop("TagStandardizer")
  /\ \E f \in {CurrentFile} : \E plan \in {TagPlan(disk[f])} :
        /\ visited' = visited \cup {f}
        /\ \/ \* open or read raises: except Exception, return False
              /\ io_failed' = io_failed \cup {f}
              /\ stats' = Bump(stats, "processed")
              /\ NextFile
              /\ UNCHANGED tag_stats
           \/ \* no frontmatter, an exception, or nothing to change
              /\ ~ plan.rewrite
              /\ tag_stats' = TagStatsAfter(tag_stats, plan.counted)
              /\ stats' = Bump(stats, "processed")
              /\ NextFile
              /\ UNCHANGED io_failed
           \/ \* dry run: return True without writing
              /\ plan.rewrite /\ ~ WritesToDisk(dry_run)
              /\ tag_stats' = TagStatsAfter(tag_stats, plan.counted)
              /\ stats' = Bump(Bump(stats, "processed"), "updated")
              /\ NextFile
              /\ UNCHANGED io_failed
           \/ \* open(file_path, 'w') raises: return False
              /\ plan.rewrite /\ WritesToDisk(dry_run)
              /\ io_failed' = io_failed \cup {f}
              /\ tag_stats' = TagStatsAfter(tag_stats, plan.counted)
              /\ stats' = Bump(stats, "processed")
              /\ NextFile
           \/ /\ plan.rewrite /\ WritesToDisk(dry_run)
              /\ tag_stats' = TagStatsAfter(tag_stats, plan.counted)
              /\ stats' = Bump(stats, "processed")
              /\ OpenForWrite(f, [new |-> plan.new, links |-> 0, topics |-> {}])
              /\ UNCHANGED io_failed
  /\ UNCHANGED <<tool, dry_run, disk0, connection_map>>
  /\ UNCHANGED otherThanVault

\* MetadataAdder.process_vault, normal mode: one iteration
MetadataAdderProcessFile ==
  /\ InLoop("MetadataAdder") /\ ~ dry_run
  /\ LET f == CurrentFile IN
        /\ visited' = visited \cup {f}
        /\ \/ \* open or read raises: errors += 1
              /\ io_failed' = io_failed \cup {f}
              /\ stats' = Bump(Bump(stats, "processed"), "errors")
              /\ NextFile
           \/ /\ has_frontmatter(disk[f])
              /\ stats' = Bump(Bump(stats, "processed"), "skipped")
              /\ NextFile
              /\ UNCHANGED io_failed
           \/ \* open(file_path, 'w') raises: errors += 1
              /\ ~ has_frontmatter(disk[f])
              /\ io_failed' = io_failed \cup {f}
              /\ stats' = Bump(Bump(stats, "processed"), "errors")
              /\ NextFile
           \/ /\ ~ has_frontmatter(disk[f])
              /\ \E tags_from_path \in generate_tags_from_path(VaultPaths[f]) :
                   OpenForWrite(f, [new |-> create_frontmatter(VaultPaths[f], tags_from_path)
                                              \o disk[f],
                                    links |-> 0, topics |-> {}])
              /\ stats' = Bump(stats, "processed")
              /\ UNCHANGED io_failed
  /\ UNCHANGED <<tool, dry_run, disk0, tag_stats, connection_map>>
  /\ UNCHANGED otherThanVault

\* MetadataAdder.process_vault, dry run: one iteration; the read is not
\* inside a try, so its exception leaves process_vault
MetadataAdderDryRun ==
  /\ InLoop("MetadataAdder") /\ dry_run
  /\ LET f == CurrentFile IN
        /\ visited' = visited \cup {f}
        /\ \/ /\ io_failed' = io_failed \cup {f}
              /\ stats' = Bump(stats, "processed")
              /\ pc' = "aborted"
              /\ UNCHANGED cursor
           \/ /\ has_frontmatter(disk[f])
              /\ stats' = Bump(Bump(stats, "processed"), "skipped")
              /\ cursor' = cursor + 1
              /\ UNCHANGED <<io_failed, pc>>
           \/ /\ ~ has_frontmatter(disk[f])
              /\ stats' = Bump(Bump(stats, "processed"), "updated")
              /\ cursor' = cursor + 1
              /\ UNCHANGED <<io_failed, pc>>
  /\ UNCHANGED <<tool, dry_run, disk, disk0, intended, opened, pending, tag_stats, connection_map>>
  /\ UNCHANGED otherThanVault

\* DailyNotesConnector.run: one iteration, i.e. process_daily_note up to
\* its return, its exception (caught in run) or the open for writing
DailyNotesProcessNote ==
  /\ InLoop("DailyNotesConnector")
  /\ \E f \in {CurrentFile} : \E plan \in {DailyPlan(f, disk[f], Corpus(tool))} :
        /\ visited' = visited \cup {f}
        /\ \/ \* the read in extract_frontmatter raises
              /\ io_failed' = io_failed \cup {f}
              /\ NextFile
              /\ UNCHANGED <<stats, connection_map>>
           \/ \* frontmatter.get raises on a frontmatter that is no dict
              /\ plan.raised
              /\ NextFile
              /\ UNCHANGED <<stats, connection_map, io_failed>>
           \/ \* no new connections: nothing is written
              /\ ~ plan.raised /\ ~ plan.rewrite
              /\ stats' = Bump(stats, "processed")
              /\ connection_map' = MapTopics(connection_map, plan.topics, f)
              /\ NextFile
              /\ UNCHANGED io_failed
           \/ \* open(file_path, 'w') in update_frontmatter raises
              /\ plan.rewrite
              /\ io_failed' = io_failed \cup {f}
              /\ NextFile
              /\ UNCHANGED <<stats, connection_map>>
           \/ /\ plan.rewrite
              /\ OpenForWrite(f, [new |-> plan.new, links |-> plan.links, topics |-> plan.topics])
              /\ UNCHANGED <<stats, connection_map, io_failed>>
  /\ UNCHANGED <<tool, dry_run, disk0, tag_stats>>
  /\ UNCHANGED otherThanVault

\* f.write(new_content) and the close succeed; the caller counts the file
WriteCompletes ==
  /\ pc = "writing"
  /\ LET f == CurrentFile IN
        /\ disk' = [disk EXCEPT ![f] = pending.new]
        /\ stats' =
             IF tool = "DailyNotesConnector"
             THEN [stats EXCEPT !.connections = @ + pending.links, !.processed = @ + 1]
             ELSE Bump(stats, "updated")
        /\ connection_map' =
             IF tool = "DailyNotesConnector"
             THEN MapTopics(connection_map, pending.topics, f)
             ELSE connection_map
  /\ pending' = NoPending
  /\ pc' = "loop"
  /\ cursor' = cursor + 1
  /\ UNCHANGED <<tool, dry_run, disk0, intended, opened, visited, io_failed, tag_stats>>
  /\ UNCHANGED otherThanVault

\* f.write(new_content) or the close raises: the exception is caught by
\* process_file (standardizer, adder) or by run (connector)
WriteFails ==
  /\ pc = "writing"
  /\ \E partial \in PartialWrites(pending.new) :
       disk' = [disk EXCEPT ![CurrentFile] = partial]
  /\ stats' = IF tool = "MetadataAdder" THEN Bump(stats, "errors") ELSE stats
  /\ pending' = NoPending
  /\ pc' = "loop"
  /\ cursor' = cursor + 1
  /\ io_failed' = io_failed \cup {CurrentFile}
  /\ UNCHANGED <<tool, dry_run, disk0, intended, opened, visited, tag_stats, connection_map>>
  /\ UNCHANGED otherThanVault

\* the loop is over: process_vault returns its counters, run goes on to
\* its report
Finish ==
  /\ pc = "loop" /\ cursor > Len(Corpus(tool))
  /\ pc' = "done"
  /\ UNCHANGED <<tool, dry_run, disk, disk0, intended, opened, cursor, stats, visited,
                 io_failed, tag_stats, connection_map, pending>>
  /\ UNCHANGED otherThanVault

Next ==
  \/ TagStandardizerProcessFile
  \/ MetadataAdderProcessFile
  \/ MetadataAdderDryRun
  \/ DailyNotesProcessNote
  \/ WriteCompletes
  \/ WriteFails
  \/ Finish

Spec == Init /\ [][Next]_vars

(***************************************************************************)
(* MOCGenerator.create_moc_file, called any number of times on one vault.  *)
(* A file is [exists, content]; the directory analysed is readable.        *)
(***************************************************************************)
MaxCalls == 3

MocTitles == { <<"A","I">>, <<"N","o","t","e","s">> }

MocDescriptions == { <<>>, <<"m","y"," ","h","u","b">> }

\* stats['md_files'] of the directory at the time of a call
MocFileCounts == 0..1

\* an output_path argument: <<>> stands for None
ExplicitPath == <<"i","n","d","e","x","/","A","l","l",".","m","d">>

OutputPathArgs == { <<>>, ExplicitPath }

\* moc_dir / f"MOC - {title}.md"
ComputedPath(title) == <<"m","a","p","-","o","f","-","c","o","n","t","e","n","t","/","M","O","C"," ","-"," ">> \o title \o <<".","m","d">>

MocPaths == {ComputedPath(t) : t \in MocTitles} \cup {ExplicitPath}

NoFile == [exists |-> FALSE, content |-> <<>>]

FileWith(text) == [exists |-> TRUE, content |-> text]

\* generate_moc_content: the lines of the text that vary with the call
generate_moc_content(title, description, md_files) ==
  <<"#"," ">> \o title \o <<" ","M","a","p"," ","o","f"," ","C","o","n","t","e","n","t","\n","\n","#","#"," ","O","v","e","r","v","i","e","w","\n">>
    \o (IF description # <<>> THEN description
        ELSE <<"T","h","i","s"," ","M","O","C"," ","o","r","g","a","n","i","z","e","s"," ","a","l","l"," ","c","o","n","t","e","n","t"," ","r","e","l","a","t","e","d"," ","t","o"," ">> \o StrLower(title) \o <<".">>)
    \o <<"\n","\n","*","*","T","o","t","a","l"," ","F","i","l","e","s","*","*",":"," ">> \o IntToDigits(md_files) \o <<" ","m","a","r","k","d","o","w","n"," ","f","i","l","e","s","\n">>

\* `if output_path.exists():`
output_exists_never(files, path) == FALSE

output_exists(files, path) == files[path].exists

\* a MOC somebody wrote by hand before the generator ran
HandWritten == <<"#"," ","m","i","n","e","\n">>

InitMoc ==
  /\ IdleButMoc
  /\ moc_files \in [MocPaths -> {NoFile, FileWith(HandWritten)}]
  /\ moc_before = moc_files
  /\ moc_first = [p \in MocPaths |-> NoFile]
  /\ moc_path = <<>>
  /\ moc_content = <<>>
  /\ moc_result = "idle"
  /\ moc_calls = 0

\* what every call does: generate the content, settle the output path
MocCall(title, description, md_files, output_path) ==
  /\ moc_calls < MaxCalls
  /\ moc_calls' = moc_calls + 1
  /\ moc_content' = generate_moc_content(title, description, md_files)
  /\ moc_path' = IF output_path = <<>> THEN ComputedPath(title) ELSE output_path
  /\ moc_before' = moc_files
  /\ UNCHANGED otherThanMoc

\* the file is there: "MOC already exists", return False
CreateMocSkipped ==
  \E title \in MocTitles, description \in MocDescriptions, md_files \in MocFileCounts,
     output_path \in OutputPathArgs :
    /\ MocCall(title, description, md_files, output_path)
    /\ output_exists(moc_files, moc_path')
    /\ moc_result' = "False"
    /\ UNCHANGED <<moc_files, moc_first>>

\* open(output_path, 'w') raises: "Error creating MOC", return False
CreateMocOpenFails ==
  \E title \in MocTitles, description \in MocDescriptions, md_files \in MocFileCounts,
     output_path \in OutputPathArgs :
    /\ MocCall(title, description, md_files, output_path)
    /\ ~ output_exists(moc_files, moc_path')
    /\ moc_result' = "False"
    /\ UNCHANGED <<moc_files, moc_first>>

\* the file is created, then f.write or the close raises: return False
CreateMocWriteFails ==
  \E title \in MocTitles, description \in MocDescriptions, md_files \in MocFileCounts,
     output_path \in OutputPathArgs :
    /\ MocCall(title, description, md_files, output_path)
    /\ ~ output_exists(moc_files, moc_path')
    /\ \E partial \in PartialWrites(moc_content') :
         moc_files' = [moc_files EXCEPT ![moc_path'] = FileWith(partial)]
    /\ moc_result' = "False"
    /\ UNCHANGED moc_first

\* the content is written: "Created MOC", return True
CreateMocWritten ==
  \E title \in MocTitles, description \in MocDescriptions, md_files \in MocFileCounts,
     output_path \in OutputPathArgs :
    /\ MocCall(title, description, md_files, output_path)
    /\ ~ output_exists(moc_files, moc_path')
    /\ moc_files' = [moc_files EXCEPT ![moc_path'] = FileWith(moc_content')]
    /\ moc_first' = IF moc_first[moc_path'].exists THEN moc_first
                    ELSE [moc_first EXCEPT ![moc_path'] = FileWith(moc_content')]
    /\ moc_result' = "True"

NextMoc ==
  \/ CreateMocSkipped
  \/ CreateMocOpenFails
  \/ CreateMocWriteFails
  \/ CreateMocWritten

SpecMoc == InitMoc /\ [][NextMoc]_vars

(***************************************************************************)
(* generate_components_json: keys, download counts, the scan               *)
(***************************************************************************)
\* str.endswith(p)
EndsWith(s, p) == Len(s) >= Len(p) /\ SubSeq(s, Len(s) - Len(p) + 1, Len(s)) = p

\* os.path.splitext(file_name)[0]: cut at the last dot, unless the dot
\* leads the name
SplitextStem(file_name) ==
  LET dots == {i \in 2..Len(file_name) : file_name[i] = "."} IN
    IF dots = {} THEN file_name
    ELSE SubSeq(file_name, 1, (CHOOSE i \in dots : \A j \in dots : j <= i) - 1)

\* f"{component_type}/{category}/{name}"
ComponentKey(component_type, category, name) ==
  component_type \o <<"/">> \o category \o <<"/">> \o name

TYPE_MAPPING ==
  << <<<<"a","g","e","n","t">>, <<"a","g","e","n","t","s">>>>, <<<<"c","o","m","m","a","n","d">>, <<"c","o","m","m","a","n","d","s">>>>, <<<<"s","e","t","t","i","n","g">>, <<"s","e","t","t","i","n","g","s">>>>,
     <<<<"h","o","o","k">>, <<"h","o","o","k","s">>>>, <<<<"m","c","p">>, <<"m","c","p","s">>>>, <<<<"s","k","i","l","l">>, <<"s","k","i","l","l","s">>>>,
     <<<<"t","e","m","p","l","a","t","e">>, <<"t","e","m","p","l","a","t","e","s">>>>, <<<<"p","l","u","g","i","n">>, <<"p","l","u","g","i","n","s">>>>, <<<<"s","a","n","d","b","o","x">>, <<"s","a","n","d","b","o","x">>>> >>

\* TYPE_MAPPING.get(component_type, component_type + 's')
MappedType(component_type) == DictGet(TYPE_MAPPING, component_type, component_type \o <<"s">>)

\* category and actual_name of a component_name
NameCategory(component_name) ==
  IF FindChar(component_name, "/") # 0 THEN Split(component_name, "/")[1] ELSE <<"g","e","n","e","r","a","l">>

ActualName(component_name) ==
  IF FindChar(component_name, "/") # 0
  THEN Split(component_name, "/")[Len(Split(component_name, "/"))]
  ELSE component_name

\* the key a row of either table is counted under
RowKey(row) ==
  ComponentKey(MappedType(row.component_type), NameCategory(row.component_name),
               ActualName(row.component_name))

\* download_counts of the component_downloads rows: one per row whose type
\* and name are not empty
RECURSIVE AggregateDownloads(_, _)
AggregateDownloads(downloads, download_counts) ==
  IF downloads = <<>> THEN download_counts
  ELSE IF Head(downloads).component_type # <<>> /\ Head(downloads).component_name # <<>>
  THEN AggregateDownloads(Tail(downloads),
         DictSet(download_counts, RowKey(Head(downloads)),
                 DictGet(download_counts, RowKey(Head(downloads)), 0) + 1))
  ELSE AggregateDownloads(Tail(downloads), download_counts)

\* download_counts of the download_stats rows
RECURSIVE TableDownloads(_, _)
TableDownloads(stats_rows, download_counts) ==
  IF stats_rows = <<>> THEN download_counts
  ELSE TableDownloads(Tail(stats_rows),
         DictSet(download_counts, RowKey(Head(stats_rows)), Head(stats_rows).total_downloads))

\* the security object of a component the report does not cover
DefaultSecurity ==
  [validated |-> FALSE, valid |-> PyNone, score |-> PyNone,
   errorCount |-> 0, warningCount |-> 0, lastValidated |-> PyNone]

\* the security object built from a component_result of the report
ReportedSecurity(component_result) ==
  [validated |-> TRUE, valid |-> PyInt(IF component_result.valid THEN 1 ELSE 0),
   score |-> PyInt(component_result.score),
   errorCount |-> 0, warningCount |-> 0, lastValidated |-> PyStr(<<"2","0","2","5","-","0","1","-","0","1">>)]

\* index of 'components' in path_parts, 0 if absent
ComponentsIndex(path_parts) ==
  IF \E i \in 1..Len(path_parts) : path_parts[i] = <<"c","o","m","p","o","n","e","n","t","s">>
  THEN CHOOSE i \in 1..Len(path_parts) :
         path_parts[i] = <<"c","o","m","p","o","n","e","n","t","s">> /\ \A j \in 1..(i - 1) : path_parts[j] # <<"c","o","m","p","o","n","e","n","t","s">>
  ELSE 0

\* security_lookup of the report's component results
RECURSIVE SecurityLookup(_, _)
SecurityLookup(results, security_lookup) ==
  IF results = <<>> THEN security_lookup
  ELSE LET path_parts == Split(Head(results).path, "/")
           idx == ComponentsIndex(path_parts)
       IN IF Head(results).path # <<>> /\ idx # 0 /\ Len(path_parts) > idx + 2
          THEN SecurityLookup(Tail(results),
                 DictSet(security_lookup,
                         ComponentKey(path_parts[idx + 1], path_parts[idx + 2],
                                      SplitextStem(path_parts[idx + 3])),
                         ReportedSecurity(Head(results))))
          ELSE SecurityLookup(Tail(results), security_lookup)

\* code points of the characters of the paths, in their order
AsciiChars == <<"-",".","/","0","1","2","3","4","5","6","7","8","9","A","B","C","D","E","F","G","H","I","J","K","L","M","N","O","P","Q","R","S","T","U","V","W","X","Y","Z","_","a","b","c","d","e","f","g","h","i","j","k","l","m","n","o","p","q","r","s","t","u","v","w","x","y","z">>

CodePoint(c) == CHOOSE k \in 1..Len(AsciiChars) : AsciiChars[k] = c

\* a < b for two strings, as Python compares them
RECURSIVE PathLess(_, _)
PathLess(a, b) ==
  IF b = <<>> THEN FALSE
  ELSE IF a = <<>> THEN TRUE
  ELSE IF a[1] # b[1] THEN CodePoint(a[1]) < CodePoint(b[1])
  ELSE PathLess(Tail(a), Tail(b))

\* list.sort(key=...) of entries whose keys differ pairwise
RECURSIVE SortedBy(_, _)
SortedBy(entries, field) ==
  IF entries = {} THEN <<>>
  ELSE LET first == CHOOSE e \in entries :
                      \A o \in entries \ {e} : PathLess(e[field], o[field])
       IN <<first>> \o SortedBy(entries \ {first}, field)

component_types ==
  << <<"a","g","e","n","t","s">>, <<"c","o","m","m","a","n","d","s">>, <<"m","c","p","s">>, <<"s","e","t","t","i","n","g","s">>, <<"h","o","o","k","s">>, <<"s","a","n","d","b","o","x">>, <<"s","k","i","l","l","s">> >>

\* the files the scan of a component type turns into entries: SKILL.md of
\* category/skill directories for skills, the .md and .json files of the
\* category directories for the other types
IsScannedFile(component_type, parts) ==
  /\ Len(parts) >= 4 /\ parts[1] = <<"c","o","m","p","o","n","e","n","t","s">> /\ parts[2] = component_type
  /\ IF component_type = <<"s","k","i","l","l","s">>
     THEN Len(parts) = 5 /\ parts[5] = <<"S","K","I","L","L",".","m","d">> /\ ~ EndsWith(parts[3], <<".","m","d">>)
     ELSE /\ Len(parts) = 4
          /\ (EndsWith(parts[4], <<".","m","d">>) \/ EndsWith(parts[4], <<".","j","s","o","n">>))
          /\ ~ EndsWith(parts[4], <<".","p","y">>)

\* download_stats.get(download_key, 0)
downloads_always_one(counts, download_key) == 1

downloads_of(counts, download_key) == DictGet(counts, download_key, 0)

\* security_metadata.get(security_key, {'validated': False, ...})
security_validated_default(metadata, security_key) ==
  DictGet(metadata, security_key, [DefaultSecurity EXCEPT !.validated = TRUE])

security_of(metadata, security_key) == DictGet(metadata, security_key, DefaultSecurity)

\* the entry of a scanned file (content and description, which are copied
\* from the file, are left out)
ComponentEntry(component_type, parts, counts, metadata) ==
  IF component_type = <<"s","k","i","l","l","s">>
  THEN [name |-> parts[4], path |-> parts[3] \o <<"/">> \o parts[4], category |-> parts[3],
        type |-> <<"s","k","i","l","l">>,
        downloads |-> downloads_of(counts, ComponentKey(component_type, parts[3], parts[4])),
        security |-> security_of(metadata, ComponentKey(component_type, parts[3], parts[4]))]
  ELSE [name |-> SplitextStem(parts[4]), path |-> parts[3] \o <<"/">> \o parts[4],
        category |-> parts[3],
        type |-> SubSeq(component_type, 1, Len(component_type) - 1),
        downloads |-> downloads_of(counts,
                        ComponentKey(component_type, parts[3], SplitextStem(parts[4]))),
        security |-> security_of(metadata,
                        ComponentKey(component_type, parts[3], SplitextStem(parts[4])))]

\* components_data[component_type] after the scan and the sort by path
ScanType(component_type, files, counts, metadata) ==
  SortedBy({ComponentEntry(component_type, Split(f, "/"), counts, metadata) :
              f \in {g \in files : IsScannedFile(component_type, Split(g, "/"))}},
           "path")

\* the language directories of cli-tool/templates and the framework
\* directories of their examples folders
LanguageDirs(files) ==
  {Split(f, "/")[2] : f \in {g \in files : Len(Split(g, "/")) >= 3
                                         /\ Split(g, "/")[1] = <<"t","e","m","p","l","a","t","e","s">>}}

FrameworkDirs(files) ==
  {Split(f, "/")[4] : f \in {g \in files : Len(Split(g, "/")) >= 5
                                         /\ Split(g, "/")[1] = <<"t","e","m","p","l","a","t","e","s">>
                                         /\ Split(g, "/")[3] = <<"e","x","a","m","p","l","e","s">>}}

\* components_data['templates'] after the sort by name (files, description
\* and installCommand left out)
ScanTemplates(files, counts) ==
  SortedBy({[name |-> d, type |-> <<"t","e","m","p","l","a","t","e">>, subtype |-> <<"l","a","n","g","u","a","g","e">>,
             downloads |-> downloads_of(counts, <<"t","e","m","p","l","a","t","e","s","/">> \o d)] : d \in LanguageDirs(files)}
           \cup
           {[name |-> d, type |-> <<"t","e","m","p","l","a","t","e">>, subtype |-> <<"f","r","a","m","e","w","o","r","k">>,
             downloads |-> downloads_of(counts, <<"t","e","m","p","l","a","t","e","s","/">> \o d)] : d \in FrameworkDirs(files)},
           "name")

\* components_data['plugins'] after the sort by name
ScanPlugins(plugin_names, counts) ==
  SortedBy({[name |-> plugin_names[k], type |-> <<"p","l","u","g","i","n">>,
             downloads |-> downloads_of(counts, <<"p","l","u","g","i","n","s","/">> \o plugin_names[k])] :
              k \in 1..Len(plugin_names)},
           "name")

\* components_data: the list of every component type, templates, plugins
ScanAll(files, plugin_names, counts, metadata) ==
  [components |-> [k \in 1..Len(component_types) |->
                     ScanType(component_types[k], files, counts, metadata)],
   templates |-> ScanTemplates(files, counts),
   plugins |-> ScanPlugins(plugin_names, counts)]

(***************************************************************************)
(* One build of docs/components.json: the security audit, the paginated    *)
(* fetch of the download rows, the scan and the write                      *)
(***************************************************************************)
\* rows of component_downloads a build may find (limit = 1000 and
\* max_pages = 200 in the code)
MaxRecords == 3

PageLimit == 2

MaxPages == 2

FileAgentMd == <<"c","o","m","p","o","n","e","n","t","s","/","a","g","e","n","t","s","/","d","e","v","/","a",".","m","d">>

FileAgentJson == <<"c","o","m","p","o","n","e","n","t","s","/","a","g","e","n","t","s","/","d","e","v","/","a",".","j","s","o","n">>

FileHookJson == <<"c","o","m","p","o","n","e","n","t","s","/","h","o","o","k","s","/","g","i","t","/","h",".","j","s","o","n">>

FileHookPy == <<"c","o","m","p","o","n","e","n","t","s","/","h","o","o","k","s","/","g","i","t","/","h",".","p","y">>

FileSkill == <<"c","o","m","p","o","n","e","n","t","s","/","s","k","i","l","l","s","/","p","d","f","/","f","o","r","m","s","/","S","K","I","L","L",".","m","d">>

FileTemplate == <<"t","e","m","p","l","a","t","e","s","/","p","y","t","h","o","n","/","C","L","A","U","D","E",".","m","d">>

FileFramework == <<"t","e","m","p","l","a","t","e","s","/","p","y","t","h","o","n","/","e","x","a","m","p","l","e","s","/","d","j","a","n","g","o","/","a","p","p",".","p","y">>

Trees ==
  { {}, {FileAgentMd}, {FileAgentMd, FileAgentJson}, {FileAgentMd, FileHookJson},
    {FileHookJson, FileHookPy}, {FileAgentMd, FileSkill, FileTemplate, FileFramework} }

PluginLists == { << <<"g","i","t","-","t","o","o","l","s">> >> }

\* a download of agents/dev/a, and one of a component no file stands for
RowMatching == [component_type |-> <<"a","g","e","n","t">>, component_name |-> <<"d","e","v","/","a">>]

RowUnmatched == [component_type |-> <<"a","g","e","n","t">>, component_name |-> <<"g","h","o","s","t">>]

\* a download of the plugin git-tools, and one of the template python
RowPlugin == [component_type |-> <<"p","l","u","g","i","n">>, component_name |-> <<"g","i","t","-","t","o","o","l","s">>]

RowTemplate == [component_type |-> <<"t","e","m","p","l","a","t","e">>, component_name |-> <<"p","y","t","h","o","n">>]

RemoteTables ==
  UNION {[1..n -> {RowMatching, RowUnmatched, RowPlugin}] : n \in 0..MaxRecords}
    \cup { <<RowTemplate>> }

AltTables ==
  { << [component_type |-> <<"h","o","o","k">>, component_name |-> <<"g","i","t","/","h">>, total_downloads |-> 7],
       [component_type |-> <<"m","c","p">>, component_name |-> <<"g","o","n","e">>, total_downloads |-> 5] >> }

Reports ==
  { <<>>, << [path |-> <<"c","l","i","-","t","o","o","l","/","c","o","m","p","o","n","e","n","t","s","/","a","g","e","n","t","s","/","d","e","v","/","a",".","m","d">>, valid |-> TRUE, score |-> 90] >> }

InitManifest ==
  /\ IdleButMan
  /\ man_pc = "security"
  /\ tree \in Trees
  /\ plugins \in PluginLists
  /\ report \in Reports
  /\ remote \in RemoteTables
  /\ alt_table \in AltTables
  /\ security_outcome = "none"
  /\ security_metadata = <<>>
  /\ page = 0
  /\ all_downloads = <<>>
  /\ fetch_error = "none"
  /\ download_stats = <<>>
  /\ components_data = <<>>
  /\ output = "none"

\* run_security_validation returns security_lookup
SecurityReturns(outcome, security_lookup) ==
  /\ security_outcome' = outcome
  /\ security_metadata' = security_lookup
  /\ man_pc' = "fetch"
  /\ UNCHANGED <<tree, plugins, report, remote, alt_table, page, all_downloads, fetch_error,
                 download_stats, components_data, output>>
  /\ UNCHANGED otherThanMan

\* except subprocess.TimeoutExpired: return {}
SecurityTimesOut ==
  /\ man_pc = "security"
  /\ SecurityReturns("timeout", <<>>)

\* except FileNotFoundError (npm is not installed): return {}
SecurityFailsToStart ==
  /\ man_pc = "security"
  /\ SecurityReturns("not_found", <<>>)

\* except Exception (the report is no JSON, ...): return {}
SecurityRaises ==
  /\ man_pc = "security"
  /\ SecurityReturns("error", <<>>)

\* the audit ran and left no security-report.json: return {}
SecurityReportMissing ==
  /\ man_pc = "security"
  /\ SecurityReturns("no_report", <<>>)

\* the audit ran, with or without warnings, and its report is read
SecurityReportRead ==
  /\ man_pc = "security"
  /\ SecurityReturns("ok", SecurityLookup(report, <<>>))

\* what the fetch steps leave alone
FetchFrame ==
  /\ UNCHANGED <<tree, plugins, report, remote, alt_table, security_outcome,
                 security_metadata, components_data, output>>
  /\ UNCHANGED otherThanMan

\* SUPABASE_URL or SUPABASE_API_KEY is not set: return {}
FetchWithoutCredentials ==
  /\ man_pc = "fetch" /\ page = 0
  /\ download_stats' = <<>>
  /\ man_pc' = "scan"
  /\ UNCHANGED <<page, all_downloads, fetch_error>>
  /\ FetchFrame

\* requests.get or response.json() raises: except Exception, return {}
FetchPageRaises ==
  /\ man_pc = "fetch"
  /\ fetch_error' = "exception"
  /\ download_stats' = <<>>
  /\ man_pc' = "scan"
  /\ UNCHANGED <<page, all_downloads>>
  /\ FetchFrame

\* status_code not in [200, 206]: break
FetchPageBadStatus ==
  /\ man_pc = "fetch"
  /\ fetch_error' = "status"
  /\ man_pc' = "aggregate"
  /\ UNCHANGED <<page, all_downloads, download_stats>>
  /\ FetchFrame

\* the rows the server returns for Range offset..offset+limit-1
Batch(rows, offset) ==
  IF offset >= Len(rows) THEN <<>>
  ELSE SubSeq(rows, offset + 1, IF offset + PageLimit < Len(rows) THEN offset + PageLimit
                                                                  ELSE Len(rows))

\* one page is fetched (the response carries no total in content-range)
FetchPage ==
  /\ man_pc = "fetch"
  /\ \E batch \in {Batch(remote, page * PageLimit)} :
       /\ all_downloads' = all_downloads \o batch
       /\ page' = IF batch = <<>> THEN page ELSE page + 1
       /\ man_pc' = IF batch = <<>> \/ Len(batch) < PageLimit \/ page + 1 = MaxPages
                    THEN "aggregate" ELSE "fetch"
  /\ UNCHANGED <<fetch_error, download_stats>>
  /\ FetchFrame

\* len(all_downloads) > 0: the rows fetched are counted
AggregateFetched ==
  /\ man_pc = "aggregate" /\ all_downloads # <<>>
  /\ download_stats' = AggregateDownloads(all_downloads, <<>>)
  /\ man_pc' = "scan"
  /\ UNCHANGED <<page, all_downloads, fetch_error>>
  /\ FetchFrame

\* no rows: the download_stats table answers with status 200
AlternativeTable ==
  /\ man_pc = "aggregate" /\ all_downloads = <<>>
  /\ download_stats' = TableDownloads(alt_table, <<>>)
  /\ man_pc' = "scan"
  /\ UNCHANGED <<page, all_downloads, fetch_error>>
  /\ FetchFrame

\* no rows, and the download_stats table answers with another status or
\* the request raises: return {}
AlternativeFails ==
  /\ man_pc = "aggregate" /\ all_downloads = <<>>
  /\ download_stats' = <<>>
  /\ \E e \in {"status", "exception"} : fetch_error' = e
  /\ man_pc' = "scan"
  /\ UNCHANGED <<page, all_downloads>>
  /\ FetchFrame

\* the scan of components, templates and plugins, and the sorts
ScanComponents ==
  /\ man_pc = "scan"
  /\ components_data' = ScanAll(tree, plugins, download_stats, security_metadata)
  /\ man_pc' = "write"
  /\ UNCHANGED <<tree, plugins, report, remote, alt_table, security_outcome,
                 security_metadata, page, all_downloads, fetch_error, download_stats, output>>
  /\ UNCHANGED otherThanMan

\* json.dump to docs/components.json, or IOError ("Error writing to ...")
WriteOutput ==
  /\ man_pc = "write"
  /\ \E o \in {"written", "failed"} : output' = o
  /\ man_pc' = "done"
  /\ UNCHANGED <<tree, plugins, report, remote, alt_table, security_outcome,
                 security_metadata, page, all_downloads, fetch_error, download_stats,
                 components_data>>
  /\ UNCHANGED otherThanMan

NextManifest ==
  \/ SecurityTimesOut
  \/ SecurityFailsToStart
  \/ SecurityRaises
  \/ SecurityReportMissing
  \/ SecurityReportRead
  \/ FetchWithoutCredentials
  \/ FetchPageRaises
  \/ FetchPageBadStatus
  \/ FetchPage
  \/ AggregateFetched
  \/ AlternativeTable
  \/ AlternativeFails
  \/ ScanComponents
  \/ WriteOutput

SpecManifest == InitManifest /\ [][NextManifest]_vars

(***************************************************************************)
(* find_keyword_connections.py                                             *)
(***************************************************************************)
PRIORITY_KEYWORDS ==
  { <<"l","l","m">>, <<"l","a","n","g","c","h","a","i","n">>, <<"l","a","n","g","g","r","a","p","h">>, <<"r","a","g">>, <<"e","m","b","e","d","d","i","n","g">>, <<"v","e","c","t","o","r">>,
    <<"a","g","e","n","t">>, <<"a","u","t","o","m","a","t","i","o","n">>, <<"w","o","r","k","f","l","o","w">>, <<"p","i","p","e","l","i","n","e">>, <<"m","c","p">>, <<"a","p","i">>,
    <<"a","n","t","h","r","o","p","i","c">>, <<"o","p","e","n","a","i">>, <<"g","o","o","g","l","e">>, <<"c","l","a","u","d","e">>, <<"g","p","t">>, <<"m","o","d","e","l">>,
    <<"c","o","n","t","e","x","t">>, <<"p","r","o","t","o","c","o","l">>, <<"f","a","s","t","a","p","i">>, <<"d","o","c","k","e","r">>, <<"c","l","o","u","d","f","l","a","r","e">>,
    <<"s","u","p","a","b","a","s","e">>, <<"i","n","t","e","g","r","a","t","i","o","n">>, <<"f","r","a","m","e","w","o","r","k">>, <<"r","e","t","r","i","e","v","a","l">>, <<"a","u","g","m","e","n","t","e","d">>,
    <<"g","e","n","e","r","a","t","i","o","n">>, <<"p","r","o","m","p","t">>, <<"e","n","g","i","n","e","e","r","i","n","g">>, <<"m","u","l","t","i","m","o","d","a","l">>, <<"f","u","n","c","t","i","o","n">>,
    <<"c","a","l","l","i","n","g">>, <<"t","o","o","l">>, <<"u","s","e">>, <<"c","h","a","i","n">>, <<"t","h","o","u","g","h","t">>, <<"r","e","a","s","o","n","i","n","g">> }

\* the characters of the class [a-z0-9-]
WordChars == {LowerChars[k] : k \in 1..26} \cup DigitChars \cup {"-"}

\* a run of [a-z0-9-] between two word boundaries: the hyphens at its ends
\* stand at no boundary
RECURSIVE TrimHyphens(_)
TrimHyphens(word) ==
  IF word = <<>> THEN <<>>
  ELSE IF Head(word) = "-" THEN TrimHyphens(Tail(word))
  ELSE IF word[Len(word)] = "-" THEN TrimHyphens(SubSeq(word, 1, Len(word) - 1))
  ELSE word

AddWord(words, word) ==
  IF TrimHyphens(word) = <<>> THEN words ELSE Append(words, TrimHyphens(word))

\* re.findall(r'\b[a-z0-9-]+\b', content) on a lowercased text without
\* underscores
RECURSIVE FindWords(_, _, _)
FindWords(content, word, words) ==
  IF content = <<>> THEN AddWord(words, word)
  ELSE IF Head(content) \in WordChars
  THEN FindWords(Tail(content), Append(word, Head(content)), words)
  ELSE FindWords(Tail(content), <<>>, AddWord(words, word))

\* Counter of the priority keywords among the words
CountWords(words) ==
  [kw \in {words[i] : i \in 1..Len(words)} \cap PRIORITY_KEYWORDS |->
     Cardinality({i \in 1..Len(words) : words[i] = kw})]

\* extract_keywords_from_file; a file that cannot be read gives Counter()
extract_keywords_from_file(content, readable) ==
  IF readable THEN CountWords(FindWords(StrLower(content), <<>>, <<>>)) ELSE <<>>

Min(a, b) == IF a < b THEN a ELSE b

RECURSIVE SumOver(_, _, _)
SumOver(common_keywords, counts1, counts2) ==
  IF common_keywords = {} THEN 0
  ELSE LET kw == CHOOSE k \in common_keywords : TRUE
       IN Min(counts1[kw], counts2[kw]) + SumOver(common_keywords \ {kw}, counts1, counts2)

\* at least 5 common keywords
MinCommonKeywords == 5

\* connections.sort(key=score, reverse=True): a stable sort
RECURSIVE InsertByScore(_, _)
InsertByScore(sorted, conn) ==
  IF sorted = <<>> THEN <<conn>>
  ELSE IF Head(sorted).score >= conn.score
  THEN <<Head(sorted)>> \o InsertByScore(Tail(sorted), conn)
  ELSE <<conn>> \o sorted

RECURSIVE SortByScore(_, _)
SortByScore(found, sorted) ==
  IF found = <<>> THEN sorted
  ELSE SortByScore(Tail(found), InsertByScore(sorted, Head(found)))

\* the connection of a pair, if it has one
PairConnection(file_keywords, file1, file2) ==
  IF Cardinality(DOMAIN file_keywords[file1] \cap DOMAIN file_keywords[file2])
       >= MinCommonKeywords
  THEN << [file1 |-> file1, file2 |-> file2,
           keywords |-> DOMAIN file_keywords[file1] \cap DOMAIN file_keywords[file2],
           score |-> SumOver(DOMAIN file_keywords[file1] \cap DOMAIN file_keywords[file2],
                             file_keywords[file1], file_keywords[file2])] >>
  ELSE <<>>

\* for i, file1 in enumerate(files): for j, file2 in enumerate(files[i+1:])
RECURSIVE PairLoop(_, _, _, _)
PairLoop(files, file_keywords, i, j) ==
  IF i > Len(files) THEN <<>>
  ELSE IF j > Len(files) THEN PairLoop(files, file_keywords, i + 1, i + 2)
  ELSE PairConnection(file_keywords, files[i], files[j])
         \o PairLoop(files, file_keywords, i, j + 1)

\* the files that have keywords, in the order of the walk
RECURSIVE WithKeywords(_, _)
WithKeywords(walk, file_keywords) ==
  IF walk = <<>> THEN <<>>
  ELSE IF DOMAIN file_keywords[Head(walk)] # {}
  THEN <<Head(walk)>> \o WithKeywords(Tail(walk), file_keywords)
  ELSE WithKeywords(Tail(walk), file_keywords)

find_keyword_connections(walk, docs, unreadable) ==
  SortByScore(
    PairLoop(WithKeywords(walk, [f \in DOMAIN docs |->
                                   extract_keywords_from_file(docs[f], f \notin unreadable)]),
             [f \in DOMAIN docs |-> extract_keywords_from_file(docs[f], f \notin unreadable)],
             1, 2),
    <<>>)

\* '[[' + name + ']]'
WikiLink(name) == <<"[", "[">> \o name \o <<"]", "]">>

RelatedHeader == <<"#","#"," ","R","e","l","a","t","e","d">>

\* the number of whitespace characters at the start of s
RECURSIVE WhitespaceRun(_)
WhitespaceRun(s) ==
  IF s # <<>> /\ Head(s) \in WhitespaceChars THEN 1 + WhitespaceRun(Tail(s)) ELSE 0

\* '$' with re.MULTILINE: the end of the text or the place before a line break
AtLineEnd(content, after) == after = Len(content) \/ content[after + 1] = NL

\* the starts of the matches of r'^## Related\s*$' (1-based)
RelatedMatches(content) ==
  {p \in 1..Len(content) :
     /\ p = 1 \/ content[p - 1] = NL
     /\ StartsWith(StrFrom(content, p), RelatedHeader)
     /\ \E k \in 0..WhitespaceRun(StrFrom(content, p + Len(RelatedHeader))) :
          AtLineEnd(content, p + Len(RelatedHeader) - 1 + k)}

\* match.end() of the first match: \s* is greedy
RelatedMatchEnd(content) ==
  LET p == CHOOSE q \in RelatedMatches(content) : \A o \in RelatedMatches(content) : q <= o
      ks == {k \in 0..WhitespaceRun(StrFrom(content, p + Len(RelatedHeader))) :
               AtLineEnd(content, p + Len(RelatedHeader) - 1 + k)}
  IN p + Len(RelatedHeader) - 1 + (CHOOSE k \in ks : \A o \in ks : o <= k)

\* content[:insert_pos] + link_line + content[insert_pos:]
InsertAt(content, insert_pos, link_line) ==
  SubSeq(content, 1, insert_pos) \o link_line \o StrFrom(content, insert_pos + 1)

\* the place after the line the Related header ends in
AfterHeaderLine(content, match_end) ==
  IF FindSub(content, <<NL>>, match_end + 1) # 0
  THEN FindSub(content, <<NL>>, match_end + 1)
  ELSE match_end

WithRelatedSection(content) ==
  (IF content # <<>> /\ content[Len(content)] = NL THEN content ELSE content \o <<NL>>)
    \o <<NL>> \o RelatedHeader \o <<NL>>

LinkLine(link_filename, link_text) ==
  <<"-"," ">> \o WikiLink(link_filename) \o <<" ","-"," ">> \o link_text \o <<NL>>

\* add_link_to_file of find_keyword_connections.py: the new content of the
\* file, its old content when the link is there already
keyword_add_link(content, link_filename, link_text) ==
  IF Contains(content, WikiLink(link_filename)) THEN content
  ELSE IF RelatedMatches(content) # {}
  THEN InsertAt(content, AfterHeaderLine(content, RelatedMatchEnd(content)),
                LinkLine(link_filename, link_text))
  ELSE WithRelatedSection(content) \o LinkLine(link_filename, link_text)

\* sorted(keywords)[:5], joined with ', '
RECURSIVE SortedWords(_)
SortedWords(words) ==
  IF words = {} THEN <<>>
  ELSE LET first == CHOOSE w \in words : \A o \in words \ {w} : StrLess(w, o)
       IN <<first>> \o SortedWords(words \ {first})

RECURSIVE JoinComma(_)
JoinComma(words) ==
  IF words = <<>> THEN <<>>
  ELSE IF Len(words) = 1 THEN words[1]
  ELSE words[1] \o <<","," ">> \o JoinComma(Tail(words))

KeywordText(keywords) ==
  <<"S","h","a","r","e","s"," ","k","e","y","w","o","r","d","s",":"," ">> \o JoinComma(SubSeq(SortedWords(keywords), 1, Min(5, Cardinality(keywords))))

(***************************************************************************)
(* implement_entity_connections.py                                         *)
(***************************************************************************)
PRIORITY_ENTITIES ==
  { <<"l","a","n","g","c","h","a","i","n">>, <<"l","a","n","g","g","r","a","p","h">>, <<"l","l","m">>, <<"r","a","g">>, <<"e","m","b","e","d","d","i","n","g">>, <<"v","e","c","t","o","r">>,
    <<"m","c","p">>, <<"m","o","d","e","l"," ","c","o","n","t","e","x","t"," ","p","r","o","t","o","c","o","l">>, <<"a","p","i"," ","i","n","t","e","g","r","a","t","i","o","n">>, <<"f","u","n","c","t","i","o","n"," ","c","a","l","l","i","n","g">>,
    <<"a","n","t","h","r","o","p","i","c">>, <<"o","p","e","n","a","i">>, <<"g","o","o","g","l","e">>, <<"c","l","a","u","d","e">>, <<"g","p","t">>,
    <<"a","u","t","o","n","o","m","o","u","s"," ","a","g","e","n","t">>, <<"a","i"," ","a","g","e","n","t">>, <<"c","h","a","i","n"," ","o","f"," ","t","h","o","u","g","h","t">>, <<"p","r","o","m","p","t"," ","e","n","g","i","n","e","e","r","i","n","g">>,
    <<"r","e","t","r","i","e","v","a","l"," ","a","u","g","m","e","n","t","e","d">>, <<"g","r","a","p","h","r","a","g">>, <<"m","u","l","t","i","m","o","d","a","l">>, <<"t","o","o","l"," ","u","s","e">> }

\* the words of related_patterns, in their order
related_patterns == << <<"R","e","l","a","t","e","d">>, <<"S","e","e"," ","a","l","s","o">>, <<"L","i","n","k","s">>, <<"R","e","f","e","r","e","n","c","e","s">> >>

\* the number of '#' at the start of s
RECURSIVE HashRun(_)
HashRun(s) == IF s # <<>> /\ Head(s) = "#" THEN 1 + HashRun(Tail(s)) ELSE 0

\* where the word of a header that starts at p would start
HeaderWordStart(content, p) ==
  p + HashRun(StrFrom(content, p))
    + WhitespaceRun(StrFrom(content, p + HashRun(StrFrom(content, p))))

\* the starts of the matches of r'^#+\s*<word>.*?$' with MULTILINE and
\* IGNORECASE
HeaderMatches(content, word) ==
  {p \in 1..Len(content) :
     /\ p = 1 \/ content[p - 1] = NL
     /\ content[p] = "#"
     /\ StartsWith(StrLower(StrFrom(content, HeaderWordStart(content, p))), StrLower(word))}

\* the end of the line that holds the offset
LineEnd(content, offset) ==
  IF FindSub(content, <<NL>>, offset + 1) # 0
  THEN FindSub(content, <<NL>>, offset + 1) - 1
  ELSE Len(content)

\* match.end() of the first match of a pattern
HeaderMatchEnd(content, word) ==
  LineEnd(content,
          HeaderWordStart(content,
                          CHOOSE q \in HeaderMatches(content, word) :
                            \A o \in HeaderMatches(content, word) : q <= o)
            + Len(word) - 1)

\* the patterns that match, in the order of related_patterns
MatchingPatterns(content) ==
  SelectSeq(related_patterns, LAMBDA word : HeaderMatches(content, word) # {})

\* content.find('\n', frontmatter_end + 3) + 1 after content.find('---', 3)
AfterFrontmatter(content) ==
  IF FindSub(content, Delimiter, 4) = 0 THEN 0
  ELSE FindSub(content, <<NL>>, FindSub(content, Delimiter, 4) + 3)

\* insert_pos: after the line of the first matching header, else after the
\* frontmatter, else 0
EntityInsertPos(content) ==
  IF MatchingPatterns(content) # <<>>
  THEN AfterHeaderLine(content, HeaderMatchEnd(content, Head(MatchingPatterns(content))))
  ELSE AfterFrontmatter(content)

\* insert_pos > 0 and content[insert_pos-2:insert_pos] != '\n\n'
NotInListSection(content, insert_pos) ==
  /\ insert_pos > 0
  /\ ~ (insert_pos >= 2 /\ SubSeq(content, insert_pos - 1, insert_pos) = <<NL, NL>>)

\* add_link_to_file of implement_entity_connections.py up to write_file:
\* the content it writes, the old content when it returns before
entity_add_link(content, link_to_add, link_text) ==
  IF content = <<>> \/ Contains(content, WikiLink(link_to_add)) THEN content
  ELSE IF NotInListSection(content, EntityInsertPos(content))
          /\ MatchingPatterns(content) = <<>>
  THEN WithRelatedSection(content) \o LinkLine(link_to_add, link_text)
  ELSE InsertAt(content, EntityInsertPos(content), LinkLine(link_to_add, link_text))

\* the sign between the two links of a line of the report (U+2194)
BothWays == "~"

\* re.match(r'^### (.+)$', line)
IsEntityHeader(line) == StartsWith(line, <<"#","#","#"," ">>) /\ Len(line) > 4

\* entity_match.group(1).strip().lower()
EntityOf(line) == StrLower(Strip(StrFrom(line, 5)))

\* [^\]]+ : the characters up to the first ']'
UpToBracket(s) == IF FindChar(s, "]") = 0 THEN s ELSE SubSeq(s, 1, FindChar(s, "]") - 1)

\* what follows the first link of a connection line
AfterFirstLink(line) == StrFrom(line, 5 + Len(UpToBracket(StrFrom(line, 5))))

\* re.match(r'- \[\[([^\]]+)\]\] <-> \[\[([^\]]+)\]\]', line)
IsConnectionLine(line) ==
  /\ StartsWith(line, <<"-"," ","[","[">>)
  /\ UpToBracket(StrFrom(line, 5)) # <<>>
  /\ StartsWith(AfterFirstLink(line), <<"]","]"," ">> \o <<BothWays>> \o <<" ","[","[">>)
  /\ UpToBracket(StrFrom(AfterFirstLink(line), 8)) # <<>>
  /\ StartsWith(StrFrom(AfterFirstLink(line),
                        8 + Len(UpToBracket(StrFrom(AfterFirstLink(line), 8)))),
                <<"]","]">>)

\* conn_match.group(1).strip(), conn_match.group(2).strip()
FirstFile(line) == Strip(UpToBracket(StrFrom(line, 5)))

SecondFile(line) == Strip(UpToBracket(StrFrom(AfterFirstLink(line), 8)))

ConnectionLine(file1, file2) ==
  <<"-"," ">> \o WikiLink(file1) \o <<" ", BothWays, " ">> \o WikiLink(file2)

EntityText(entity) == <<"R","e","l","a","t","e","d"," ","t","o"," ">> \o entity

(***************************************************************************)
(* The two connection strategies as state machines                         *)
(***************************************************************************)
\* the notes of the search directories (bound of the corpora)
MaxDocs == 2

DocTitles == SubSeq(<< <<"A">>, <<"B">>, <<"C">> >>, 1, MaxDocs)

TitleSet == {DocTitles[k] : k \in 1..Len(DocTitles)}

\* texts of notes: five priority keywords, four, five and a Related
\* section, none
KeywordTexts ==
  { <<"l","l","m"," ","r","a","g"," ","m","c","p"," ","a","p","i"," ","g","p","t"," ","g","p","t">>, <<"l","l","m"," ","r","a","g"," ","m","c","p"," ","a","p","i">>,
    <<"l","l","m"," ","r","a","g"," ","m","c","p"," ","a","p","i"," ","g","p","t","\n","#","#"," ","R","e","l","a","t","e","d","\n","-"," ","[","[","Z","]","]","\n">>, <<"n","o","t","e","s">> }

\* a note with inline references to the notes of a set
RECURSIVE WithLinks(_, _)
WithLinks(text, titles) ==
  IF titles = {} THEN text
  ELSE LET t == CHOOSE x \in titles : \A o \in titles \ {x} : PathLess(x, o)
       IN WithLinks(text \o <<NL>> \o WikiLink(t), titles \ {t})

Corpora ==
  [TitleSet -> KeywordTexts \X {{}, TitleSet}]

\* Link_Suggestions_Report.md: sections of entities with their connections
ReportPool ==
  { <<>>,
    << <<"#"," ","L","i","n","k"," ","S","u","g","g","e","s","t","i","o","n","s">>, <<"#","#","#"," ","L","L","M">>, ConnectionLine(<<"A">>, <<"B">>) >>,
    << <<"#","#","#"," ","l","l","m">>, ConnectionLine(<<"A">>, <<"A">>), ConnectionLine(<<"B">>, <<"Z">>),
       ConnectionLine(<<"B">>, <<"A">>) >>,
    << <<"#","#","#"," ","c","o","o","k","i","n","g">>, ConnectionLine(<<"A">>, <<"B">>) >> }

InitConnections ==
  /\ IdleButConn
  /\ conn_strategy \in {"keyword", "entity"}
  /\ \E corpus \in Corpora :
       conn_docs = [f \in TitleSet |-> WithLinks(corpus[f][1], corpus[f][2] \ {f})]
  /\ conn_docs0 = conn_docs
  /\ conn_unreadable \in SUBSET TitleSet
  /\ conn_report \in (IF conn_strategy = "entity" THEN ReportPool ELSE {<<>>})
  /\ connections = <<>>
  /\ conn_pc = "start"
  /\ conn_cursor = 0
  /\ current_entity = <<>>
  /\ connections_made = 0
  /\ links_added = {}

\* connections = find_keyword_connections(vault_root)
FindKeywordConnections ==
  /\ conn_strategy = "keyword" /\ conn_pc = "start"
  /\ connections' = find_keyword_connections(DocTitles, conn_docs, conn_unreadable)
  /\ conn_pc' = "implement"
  /\ conn_cursor' = 1
  /\ UNCHANGED <<conn_strategy, conn_docs, conn_docs0, conn_unreadable, conn_report,
                 current_entity, connections_made, links_added>>
  /\ UNCHANGED otherThanConn

\* for conn in connections[:limit]
ImplementLimit == 50

\* the notes after add_link_to_file(file_path, link_to_add, text): a note
\* that cannot be read stays as it is
AfterKeywordLink(notes, file_path, link_to_add, text) ==
  IF file_path \in conn_unreadable THEN notes
  ELSE [notes EXCEPT ![file_path] = keyword_add_link(@, link_to_add, text)]

\* one turn of the loop of implement_keyword_connections: two calls of
\* add_link_to_file
KeywordLinksAdded(conn, first, second) ==
  /\ conn_docs' = second
  /\ connections_made' = connections_made
       + (IF first # conn_docs THEN 1 ELSE 0) + (IF second # first THEN 1 ELSE 0)
  /\ links_added' = links_added
       \cup (IF first # conn_docs THEN {<<conn.file1, conn.file2>>} ELSE {})
       \cup (IF second # first THEN {<<conn.file2, conn.file1>>} ELSE {})

ImplementKeywordConnection ==
  /\ conn_strategy = "keyword" /\ conn_pc = "implement"
  /\ conn_cursor <= Len(connections) /\ conn_cursor <= ImplementLimit
  /\ \E conn \in {connections[conn_cursor]} :
       \E first \in {AfterKeywordLink(conn_docs, conn.file1, conn.file2,
                                      KeywordText(conn.keywords))} :
         \E second \in {AfterKeywordLink(first, conn.file2, conn.file1,
                                         KeywordText(conn.keywords))} :
           KeywordLinksAdded(conn, first, second)
  /\ conn_cursor' = conn_cursor + 1
  /\ UNCHANGED <<conn_strategy, conn_docs0, conn_unreadable, conn_report, connections,
                 conn_pc, current_entity>>
  /\ UNCHANGED otherThanConn

\* the loop over the connections is over
KeywordReport ==
  /\ conn_strategy = "keyword" /\ conn_pc = "implement"
  /\ conn_cursor > Len(connections) \/ conn_cursor > ImplementLimit
  /\ conn_pc' = "done"
  /\ UNCHANGED <<conn_strategy, conn_docs, conn_docs0, conn_unreadable, conn_report,
                 connections, conn_cursor, current_entity, connections_made, links_added>>
  /\ UNCHANGED otherThanConn

\* report_content = read_file(report_path): an empty or unreadable report
\* ends the run
ReadReport ==
  /\ conn_strategy = "entity" /\ conn_pc = "start"
  /\ conn_pc' = IF conn_report = <<>> THEN "done" ELSE "lines"
  /\ conn_cursor' = 1
  /\ UNCHANGED <<conn_strategy, conn_docs, conn_docs0, conn_unreadable, conn_report,
                 connections, current_entity, connections_made, links_added>>
  /\ UNCHANGED otherThanConn

AtReportLine ==
  /\ conn_strategy = "entity" /\ conn_pc = "lines"
  /\ conn_cursor <= Len(conn_report)

EntityFrame ==
  /\ conn_cursor' = conn_cursor + 1
  /\ UNCHANGED <<conn_strategy, conn_docs0, conn_unreadable, conn_report, connections, conn_pc>>
  /\ UNCHANGED otherThanConn

\* a line that is an entity header
EntityHeaderLine ==
  /\ AtReportLine
  /\ IsEntityHeader(conn_report[conn_cursor])
  /\ current_entity' = EntityOf(conn_report[conn_cursor])
  /\ UNCHANGED <<conn_docs, connections_made, links_added>>
  /\ EntityFrame

\* the line is a connection of a priority entity between two notes that
\* find_file finds
IsPriorityConnection(line) ==
  /\ ~ IsEntityHeader(line)
  /\ current_entity # <<>>
  /\ current_entity \in {StrLower(e) : e \in PRIORITY_ENTITIES}
  /\ IsConnectionLine(line)
  /\ FirstFile(line) # SecondFile(line)
  /\ FirstFile(line) \in TitleSet /\ SecondFile(line) \in TitleSet

\* the notes after add_link_to_file(file_path, link_to_add, text): read_file
\* returns None for a note that cannot be read
AfterEntityLink(notes, file_path, link_to_add, text) ==
  IF file_path \in conn_unreadable THEN notes
  ELSE [notes EXCEPT ![file_path] = entity_add_link(@, link_to_add, text)]

EntityLinksAdded(file1, file2, first, second) ==
  /\ conn_docs' = second
  /\ connections_made' = connections_made
       + (IF first # conn_docs THEN 1 ELSE 0) + (IF second # first THEN 1 ELSE 0)
  /\ links_added' = links_added
       \cup (IF first # conn_docs THEN {<<file1, file2>>} ELSE {})
       \cup (IF second # first THEN {<<file2, file1>>} ELSE {})

EntityConnectionLine ==
  /\ AtReportLine
  /\ IsPriorityConnection(conn_report[conn_cursor])
  /\ \E file1 \in {FirstFile(conn_report[conn_cursor])} :
       \E file2 \in {SecondFile(conn_report[conn_cursor])} :
         \E first \in {AfterEntityLink(conn_docs, file1, file2, EntityText(current_entity))} :
           \E second \in {AfterEntityLink(first, file2, file1, EntityText(current_entity))} :
             EntityLinksAdded(file1, file2, first, second)
  /\ UNCHANGED current_entity
  /\ EntityFrame

\* any other line is passed over
EntityOtherLine ==
  /\ AtReportLine
  /\ ~ IsEntityHeader(conn_report[conn_cursor])
  /\ ~ IsPriorityConnection(conn_report[conn_cursor])
  /\ UNCHANGED <<conn_docs, current_entity, connections_made, links_added>>
  /\ EntityFrame

\* the lines are over: the report of the run
EntityReport ==
  /\ conn_strategy = "entity" /\ conn_pc = "lines"
  /\ conn_cursor > Len(conn_report)
  /\ conn_pc' = "done"
  /\ UNCHANGED <<conn_strategy, conn_docs, conn_docs0, conn_unreadable, conn_report,
                 connections, conn_cursor, current_entity, connections_made, links_added>>
  /\ UNCHANGED otherThanConn

NextConnections ==
  \/ FindKeywordConnections
  \/ ImplementKeywordConnection
  \/ KeywordReport
  \/ ReadReport
  \/ EntityHeaderLine
  \/ EntityConnectionLine
  \/ EntityOtherLine
  \/ EntityReport

SpecConnections == InitConnections /\ [][NextConnections]_vars

(***************************************************************************)
(* hooks/git/prevent-direct-push.py                                        *)
(***************************************************************************)
\* is_force_push = "--force" in push_cmd or "-f" in push_cmd
is_force_push(push_cmd) == Contains(push_cmd, <<"-","-","f","o","r","c","e">>) \/ Contains(push_cmd, <<"-","f">>)

ProtectedBranches == { <<"m","a","i","n">>, <<"d","e","v","e","l","o","p">> }

\* targets_protected
targets_protected(push_cmd, branch) ==
  \/ Contains(push_cmd, <<"o","r","i","g","i","n"," ","m","a","i","n">>)
  \/ Contains(push_cmd, <<"o","r","i","g","i","n"," ","d","e","v","e","l","o","p">>)
  \/ branch \in ProtectedBranches

\* if tool_name != "Bash" or "git push" not in command: sys.exit(0)
IsGitPush(name, cmd) == name = <<"B","a","s","h">> /\ Contains(cmd, <<"g","i","t"," ","p","u","s","h">>)

(***************************************************************************)
(* hooks/git/validate-branch-name.py                                       *)
(***************************************************************************)
CheckoutNew == <<"g","i","t"," ","c","h","e","c","k","o","u","t"," ","-","b">>

\* if tool_name != "Bash" or "git checkout -b" not in command: sys.exit(0)
IsCheckoutNew(name, cmd) == name = <<"B","a","s","h">> /\ Contains(cmd, CheckoutNew)

\* the starts of the matches of r'git checkout -b\s+([^\s]+)'
CheckoutMatches(cmd) ==
  {p \in 1..Len(cmd) :
     /\ StartsWith(StrFrom(cmd, p), CheckoutNew)
     /\ WhitespaceRun(StrFrom(cmd, p + Len(CheckoutNew))) >= 1
     /\ p + Len(CheckoutNew) + WhitespaceRun(StrFrom(cmd, p + Len(CheckoutNew))) <= Len(cmd)}

\* [^\s]+ : the characters up to the next whitespace
RECURSIVE NonSpaceRun(_)
NonSpaceRun(s) ==
  IF s = <<>> \/ Head(s) \in WhitespaceChars THEN <<>>
  ELSE <<Head(s)>> \o NonSpaceRun(Tail(s))

\* group(1) of the match that starts at p
NameAt(cmd, p) ==
  NonSpaceRun(StrFrom(cmd, p + Len(CheckoutNew)
                             + WhitespaceRun(StrFrom(cmd, p + Len(CheckoutNew)))))

\* match.group(1) of re.search: the first match
branch_name_of(cmd) ==
  NameAt(cmd, CHOOSE p \in CheckoutMatches(cmd) : \A o \in CheckoutMatches(cmd) : p <= o)

\* re.match(r'^(feature|release|hotfix)/', branch_name)
HasGitFlowPrefix(branch_name) ==
  \/ StartsWith(branch_name, <<"f","e","a","t","u","r","e","/">>)
  \/ StartsWith(branch_name, <<"r","e","l","e","a","s","e","/">>)
  \/ StartsWith(branch_name, <<"h","o","t","f","i","x","/">>)

\* [a-zA-Z0-9.]+
PrereleaseChars ==
  {LowerChars[k] : k \in 1..26} \cup {UpperChars[k] : k \in 1..26} \cup DigitChars \cup {"."}

\* \d+\.\d+\.\d+
IsVersionCore(s) ==
  /\ Len(Split(s, ".")) = 3
  /\ \A k \in 1..3 : AllDigits(Split(s, ".")[k])

\* \d+\.\d+\.\d+(-[a-zA-Z0-9.]+)?$
IsVersion(s) ==
  IF FindChar(s, "-") = 0 THEN IsVersionCore(s)
  ELSE /\ IsVersionCore(SubSeq(s, 1, FindChar(s, "-") - 1))
       /\ StrFrom(s, FindChar(s, "-") + 1) # <<>>
       /\ \A i \in (FindChar(s, "-") + 1)..Len(s) : s[i] \in PrereleaseChars

\* re.match(r'^release/v\d+\.\d+\.\d+(-[a-zA-Z0-9.]+)?$', branch_name)
MatchesReleaseVersion(branch_name) ==
  /\ StartsWith(branch_name, <<"r","e","l","e","a","s","e","/","v">>)
  /\ IsVersion(StrFrom(branch_name, 10))

(***************************************************************************)
(* The hooks as state machines: one run on one tool call                   *)
(***************************************************************************)
PushCommands ==
  { <<"g","i","t"," ","p","u","s","h">>, <<"g","i","t"," ","p","u","s","h"," ","o","r","i","g","i","n"," ","m","a","i","n">>, <<"g","i","t"," ","p","u","s","h"," ","o","r","i","g","i","n"," ","d","e","v","e","l","o","p">>,
    <<"g","i","t"," ","p","u","s","h"," ","o","r","i","g","i","n"," ","f","e","a","t","u","r","e","/","x">>, <<"g","i","t"," ","p","u","s","h"," ","-","-","f","o","r","c","e"," ","o","r","i","g","i","n"," ","m","a","i","n">>, <<"g","i","t"," ","p","u","s","h"," ","-","f">>,
    <<"g","i","t"," ","p","u","s","h"," ","o","r","i","g","i","n"," ","m","a","i","n"," ","-","-","f","o","l","l","o","w","-","t","a","g","s">>, <<"g","i","t"," ","p","u","s","h"," ","-","u"," ","o","r","i","g","i","n"," ","m","y","-","f","e","a","t","u","r","e">>,
    <<"g","i","t"," ","s","t","a","t","u","s">> }

CheckoutCommands ==
  { <<"g","i","t"," ","c","h","e","c","k","o","u","t"," ","-","b"," ","m","a","i","n">>, <<"g","i","t"," ","c","h","e","c","k","o","u","t"," ","-","b"," "," ","d","e","v","e","l","o","p">>, <<"g","i","t"," ","c","h","e","c","k","o","u","t"," ","-","b"," ","f","e","a","t","u","r","e","/","x">>,
    <<"g","i","t"," ","c","h","e","c","k","o","u","t"," ","-","b"," ","f","e","a","t","u","r","e","/">>, <<"g","i","t"," ","c","h","e","c","k","o","u","t"," ","-","b"," ","h","o","t","f","i","x","/","a">>, <<"g","i","t"," ","c","h","e","c","k","o","u","t"," ","-","b"," ","f","i","x","/","b","u","g">>,
    <<"g","i","t"," ","c","h","e","c","k","o","u","t"," ","-","b"," ","r","e","l","e","a","s","e","/","v","1",".","2",".","0">>, <<"g","i","t"," ","c","h","e","c","k","o","u","t"," ","-","b"," ","r","e","l","e","a","s","e","/","v","1",".","0",".","0","-","b","e","t","a",".","1">>,
    <<"g","i","t"," ","c","h","e","c","k","o","u","t"," ","-","b"," ","r","e","l","e","a","s","e","/","1",".","0",".","0">>, <<"g","i","t"," ","c","h","e","c","k","o","u","t"," ","-","b"," ","r","e","l","e","a","s","e","/","v","1",".","0">>,
    <<"g","i","t"," ","c","h","e","c","k","o","u","t"," ","-","b"," ","r","e","l","e","a","s","e","/","v","1",".","0",".","0","-","a","-","b">>, <<"g","i","t"," ","c","h","e","c","k","o","u","t"," ","-","b">>, <<"g","i","t"," ","c","h","e","c","k","o","u","t"," ","m","a","i","n">>,
    <<"g","i","t"," ","c","h","e","c","k","o","u","t"," ","-","b"," ","f","e","a","t","u","r","e","/","x"," ","&","&"," ","g","i","t"," ","c","h","e","c","k","o","u","t"," ","-","b"," ","b","a","d">> }

ToolNames == { <<"B","a","s","h">>, <<"W","r","i","t","e">> }

\* git branch --show-current; the empty text when the call fails
BranchOutputs == { <<"m","a","i","n">>, <<"d","e","v","e","l","o","p">>, <<"f","e","a","t","u","r","e","/","x">>, <<>> }

InitHooks ==
  /\ IdleButHook
  /\ hook \in {"prevent-direct-push", "validate-branch-name"}
  /\ valid_json \in BOOLEAN
  /\ tool_name \in ToolNames
  /\ command \in PushCommands \cup CheckoutCommands
  /\ current_branch \in (IF hook = "prevent-direct-push" THEN BranchOutputs ELSE {<<>>})
  /\ hook_pc = "start"
  /\ permissionDecision = "none"
  /\ hook_exit = -1

\* the hook ends with a decision and an exit status
HookEnds(decision, status) ==
  /\ permissionDecision' = decision
  /\ hook_exit' = status
  /\ hook_pc' = "done"
  /\ UNCHANGED <<hook, valid_json, tool_name, command, current_branch>>
  /\ UNCHANGED otherThanHook

Running(name) == hook = name /\ hook_pc = "start"

\* except json.JSONDecodeError: sys.exit(1)
PushInvalidJson ==
  /\ Running("prevent-direct-push") /\ ~ valid_json
  /\ HookEnds("none", 1)

PushNotAPush ==
  /\ Running("prevent-direct-push") /\ valid_json
  /\ ~ IsGitPush(tool_name, command)
  /\ HookEnds("none", 0)

PushDenied ==
  /\ Running("prevent-direct-push") /\ valid_json
  /\ IsGitPush(tool_name, command)
  /\ targets_protected(command, current_branch) /\ ~ is_force_push(command)
  /\ HookEnds("deny", 0)

PushAllowed ==
  /\ Running("prevent-direct-push") /\ valid_json
  /\ IsGitPush(tool_name, command)
  /\ ~ (targets_protected(command, current_branch) /\ ~ is_force_push(command))
  /\ HookEnds("none", 0)

BranchInvalidJson ==
  /\ Running("validate-branch-name") /\ ~ valid_json
  /\ HookEnds("none", 1)

BranchNotACheckout ==
  /\ Running("validate-branch-name") /\ valid_json
  /\ ~ IsCheckoutNew(tool_name, command)
  /\ HookEnds("none", 0)

\* if not match: sys.exit(0)
BranchNoName ==
  /\ Running("validate-branch-name") /\ valid_json
  /\ IsCheckoutNew(tool_name, command)
  /\ CheckoutMatches(command) = {}
  /\ HookEnds("none", 0)

HasName ==
  /\ Running("validate-branch-name") /\ valid_json
  /\ IsCheckoutNew(tool_name, command)
  /\ CheckoutMatches(command) # {}

BranchMainOrDevelop ==
  /\ HasName
  /\ branch_name_of(command) \in ProtectedBranches
  /\ HookEnds("none", 0)

BranchDeniedPrefix ==
  /\ HasName
  /\ branch_name_of(command) \notin ProtectedBranches
  /\ ~ HasGitFlowPrefix(branch_name_of(command))
  /\ HookEnds("deny", 0)

BranchDeniedVersion ==
  /\ HasName
  /\ branch_name_of(command) \notin ProtectedBranches
  /\ HasGitFlowPrefix(branch_name_of(command))
  /\ StartsWith(branch_name_of(command), <<"r","e","l","e","a","s","e","/">>)
  /\ ~ MatchesReleaseVersion(branch_name_of(command))
  /\ HookEnds("deny", 0)

BranchAllowed ==
  /\ HasName
  /\ branch_name_of(command) \notin ProtectedBranches
  /\ HasGitFlowPrefix(branch_name_of(command))
  /\ StartsWith(branch_name_of(command), <<"r","e","l","e","a","s","e","/">>)
       => MatchesReleaseVersion(branch_name_of(command))
  /\ HookEnds("none", 0)

NextHooks ==
  \/ PushInvalidJson
  \/ PushNotAPush
  \/ PushDenied
  \/ PushAllowed
  \/ BranchInvalidJson
  \/ BranchNotACheckout
  \/ BranchNoName
  \/ BranchMainOrDevelop
  \/ BranchDeniedPrefix
  \/ BranchDeniedVersion
  \/ BranchAllowed

SpecHooks == InitHooks /\ [][NextHooks]_vars

(***************************************************************************)
(* skills/pdf-processing-pro/scripts/analyze_form.py                       *)
(***************************************************************************)
\* what the input path may be
PdfPaths ==
  { [exists |-> FALSE, is_file |-> FALSE, suffix |-> s, content |-> "none"] :
      s \in {".pdf", ".txt"} }
  \cup { [exists |-> TRUE, is_file |-> FALSE, suffix |-> s, content |-> "none"] :
           s \in {".pdf", ".txt"} }
  \cup { [exists |-> TRUE, is_file |-> TRUE, suffix |-> s, content |-> c] :
           s \in {".pdf", ".PDF", ".txt"},
           c \in {"form", "no_fields", "no_pages", "corrupt", "unreadable"} }

\* --output: absent, a path that can be written, a path in a directory that
\* does not exist, a path that may not be written
PdfArgs ==
  [summary : BOOLEAN, verbose : BOOLEAN, out : {"none", "writable", "no_directory", "denied"}]

\* the exceptions PdfReader or get_fields raise on a file: pypdf raises its
\* own PdfReadError on content that is no PDF, and a ValueError may come out
\* of its parsing as well; a file that may not be read gives PermissionError
ReaderRaises(content) ==
  CASE content = "corrupt" -> {"PdfReadError", "ValueError"}
    [] content = "unreadable" -> {"PermissionError"}
    [] OTHER -> {}

\* the classes of the exceptions, as main tells them apart
IsFileNotFoundError(class) == class = "FileNotFoundError"

IsValueError(class) == class = "ValueError"

\* the except clauses of main, in their order
ExitCodeOf(class) ==
  IF IsFileNotFoundError(class) THEN 1
  ELSE IF IsValueError(class) THEN 2
  ELSE 3

\* self.pdf_path.suffix.lower() != '.pdf'
SuffixLower(suffix) == IF suffix = ".PDF" THEN ".pdf" ELSE suffix

InitPdf ==
  /\ IdleButPdf
  /\ pdf_path \in PdfPaths
  /\ pdf_args \in PdfArgs
  /\ pdf_raised = "none"
  /\ pdf_pc = "validate"
  /\ pdf_written = "none"
  /\ exit_code = -1

PdfFrame == UNCHANGED <<pdf_path, pdf_args>> /\ UNCHANGED otherThanPdf

\* an exception leaves the try block of main
Raise(class) ==
  /\ pdf_raised' = class
  /\ pdf_pc' = "except"
  /\ UNCHANGED <<pdf_written, exit_code>>
  /\ PdfFrame

\* _validate_file: if not self.pdf_path.exists()
ValidateNotFound ==
  /\ pdf_pc = "validate"
  /\ ~ pdf_path.exists
  /\ Raise("FileNotFoundError")

\* _validate_file: if not self.pdf_path.is_file()
ValidateNotAFile ==
  /\ pdf_pc = "validate"
  /\ pdf_path.exists /\ ~ pdf_path.is_file
  /\ Raise("ValueError")

\* _validate_file: if self.pdf_path.suffix.lower() != '.pdf'
ValidateNotAPdf ==
  /\ pdf_pc = "validate"
  /\ pdf_path.exists /\ pdf_path.is_file
  /\ SuffixLower(pdf_path.suffix) # ".pdf"
  /\ Raise("ValueError")

ValidateOk ==
  /\ pdf_pc = "validate"
  /\ pdf_path.exists /\ pdf_path.is_file
  /\ SuffixLower(pdf_path.suffix) = ".pdf"
  /\ pdf_pc' = "analyze"
  /\ UNCHANGED <<pdf_raised, pdf_written, exit_code>>
  /\ PdfFrame

\* analyze (also under get_summary): the reader raises, analyze logs and
\* raises again
AnalyzeRaises ==
  /\ pdf_pc = "analyze"
  /\ \E class \in ReaderRaises(pdf_path.content) : Raise(class)

\* analyze returns the fields, or {} for a PDF without pages or fields
AnalyzeReturns ==
  /\ pdf_pc = "analyze"
  /\ ReaderRaises(pdf_path.content) = {}
  /\ pdf_pc' = "output"
  /\ UNCHANGED <<pdf_raised, pdf_written, exit_code>>
  /\ PdfFrame

\* print(json_output); return 0
OutputPrinted ==
  /\ pdf_pc = "output"
  /\ pdf_args.out = "none"
  /\ pdf_written' = "stdout"
  /\ exit_code' = 0
  /\ pdf_pc' = "done"
  /\ UNCHANGED pdf_raised
  /\ PdfFrame

\* with open(args.output, 'w') ...; return 0
OutputSaved ==
  /\ pdf_pc = "output"
  /\ pdf_args.out = "writable"
  /\ pdf_written' = "file"
  /\ exit_code' = 0
  /\ pdf_pc' = "done"
  /\ UNCHANGED pdf_raised
  /\ PdfFrame

\* open(args.output, 'w') raises: FileNotFoundError when the directory of
\* the path does not exist, PermissionError when it may not be written
OutputOpenRaises ==
  /\ pdf_pc = "output"
  /\ pdf_args.out \in {"no_directory", "denied"}
  /\ Raise(IF pdf_args.out = "no_directory" THEN "FileNotFoundError" ELSE "PermissionError")

\* except FileNotFoundError / except ValueError / except Exception
MainExcept ==
  /\ pdf_pc = "except"
  /\ exit_code' = ExitCodeOf(pdf_raised)
  /\ pdf_pc' = "done"
  /\ UNCHANGED <<pdf_raised, pdf_written>>
  /\ PdfFrame

NextPdf ==
  \/ ValidateNotFound
  \/ ValidateNotAFile
  \/ ValidateNotAPdf
  \/ ValidateOk
  \/ AnalyzeRaises
  \/ AnalyzeReturns
  \/ OutputPrinted
  \/ OutputSaved
  \/ OutputOpenRaises
  \/ MainExcept

SpecPdf == InitPdf /\ [][NextPdf]_vars

(***************************************************************************)
(* EnhancedTagStandardizer.process_file and process_vault                  *)
(***************************************************************************)
DocDuplicateNormalized == <<"-","-","-","\n","t","a","g","s",":","\n","-"," ","a","i","\n","-"," ","a","i","\n","-","-","-","\n","b","o","d","y">>

DocDuplicateMixed == <<"-","-","-","\n","t","a","g","s",":","\n","-"," ","A","I","\n","-"," ","a","i","\n","-","-","-","\n","b","o","d","y">>

EnhancedPool ==
  { DocNeedsRewrite, DocNormalized, DocDuplicateNormalized, DocDuplicateMixed,
    DocNoFrontmatter, DocStringTags, DocListBlock }

\* the for loop of process_file: new_tags and changed after the entries of
\* items; an entry that is not a string is skipped
RECURSIVE EnhanceLoop(_, _, _)
EnhanceLoop(items, new_tags, changed) ==
  IF items = <<>> THEN [new_tags |-> new_tags, changed |-> changed]
  ELSE IF Head(items).t # "str" THEN EnhanceLoop(Tail(items), new_tags, changed)
  ELSE LET enhanced == PyStr(enhance_tag(Head(items).s)) IN
         EnhanceLoop(Tail(items),
                     IF Truthy(enhanced) /\ ~ \E i \in 1..Len(new_tags) : PyEq(new_tags[i], enhanced)
                     THEN Append(new_tags, enhanced) ELSE new_tags,
                     changed \/ ~ PyEq(enhanced, Head(items)))

NoEnhancedRewrite == [rewrite |-> FALSE, new |-> <<>>]

\* if changed: frontmatter['tags'] = new_tags and the new content
EnhancedPlanWrite(frontmatter, remaining_content, looped) ==
  IF looped.changed
  THEN [rewrite |-> TRUE,
        new |-> Serialize(PyDict(DictSet(frontmatter.pairs, KeyTags, PyList(looped.new_tags))),
                          remaining_content)]
  ELSE NoEnhancedRewrite

\* if not current_tags: return False; if isinstance(current_tags, list)
EnhancedPlanTags(frontmatter, remaining_content, current_tags) ==
  IF ~ Truthy(current_tags) \/ current_tags.t # "list" THEN NoEnhancedRewrite
  ELSE EnhancedPlanWrite(frontmatter, remaining_content,
                         EnhanceLoop(current_tags.items, <<>>, FALSE))

\* if frontmatter is None or 'tags' not in frontmatter: return False; a
\* frontmatter that is not a dict returns False there or raises into
\* `except Exception: return False`
EnhancedPlanParsed(frontmatter, remaining_content) ==
  IF frontmatter = PyNone \/ frontmatter.t # "dict" THEN NoEnhancedRewrite
  ELSE IF ~ HasKey(frontmatter.pairs, KeyTags) THEN NoEnhancedRewrite
  ELSE EnhancedPlanTags(frontmatter, remaining_content, Lookup(frontmatter.pairs, KeyTags))

EnhancedPlanUnpack(parsed) == EnhancedPlanParsed(parsed[1], parsed[2])

EnhancedPlan(content) == EnhancedPlanUnpack(extract_frontmatter(content))

InitEnhanced ==
  /\ IdleButEnhanced
  /\ enh_disk \in [FileIds -> EnhancedPool]
  /\ enh_disk0 = enh_disk
  /\ enh_cursor = 1
  /\ enh_pc = "loop"
  /\ enh_pending = <<>>
  /\ enh_failed = {}
  /\ files_updated = 0

\* process_file returns False: enh_disk stays, files_updated stays
EnhancedReturnsFalse ==
  /\ enh_cursor' = enh_cursor + 1
  /\ UNCHANGED <<enh_disk, enh_disk0, enh_pc, enh_pending, files_updated>>

\* open(file_path, 'r') or f.read() raises: except Exception, return False
EnhancedReadRaises ==
  /\ enh_pc = "loop" /\ enh_cursor <= MaxFiles
  /\ enh_failed' = enh_failed \cup {enh_cursor}
  /\ EnhancedReturnsFalse
  /\ UNCHANGED otherThanEnhanced

\* process_file finds nothing to change and returns False
EnhancedLeavesFile ==
  /\ enh_pc = "loop" /\ enh_cursor <= MaxFiles
  /\ ~ EnhancedPlan(enh_disk[enh_cursor]).rewrite
  /\ EnhancedReturnsFalse
  /\ UNCHANGED enh_failed
  /\ UNCHANGED otherThanEnhanced

\* process_file up to open(file_path, 'w'): the file is empty until the
\* write lands
EnhancedOpensForWrite ==
  /\ enh_pc = "loop" /\ enh_cursor <= MaxFiles
  /\ EnhancedPlan(enh_disk[enh_cursor]).rewrite
  /\ enh_pending' = EnhancedPlan(enh_disk[enh_cursor]).new
  /\ enh_disk' = [enh_disk EXCEPT ![enh_cursor] = <<>>]
  /\ enh_pc' = "writing"
  /\ UNCHANGED <<enh_disk0, enh_cursor, enh_failed, files_updated>>
  /\ UNCHANGED otherThanEnhanced

\* f.write(new_content); return True; self.files_updated += 1
EnhancedWriteCompletes ==
  /\ enh_pc = "writing"
  /\ enh_disk' = [enh_disk EXCEPT ![enh_cursor] = enh_pending]
  /\ files_updated' = files_updated + 1
  /\ enh_pending' = <<>>
  /\ enh_cursor' = enh_cursor + 1
  /\ enh_pc' = "loop"
  /\ UNCHANGED <<enh_disk0, enh_failed>>
  /\ UNCHANGED otherThanEnhanced

\* f.write raises: except Exception, return False
EnhancedWriteFails ==
  /\ enh_pc = "writing"
  /\ \E partial \in PartialWrites(enh_pending) :
       enh_disk' = [enh_disk EXCEPT ![enh_cursor] = partial]
  /\ enh_failed' = enh_failed \cup {enh_cursor}
  /\ enh_pending' = <<>>
  /\ enh_cursor' = enh_cursor + 1
  /\ enh_pc' = "loop"
  /\ UNCHANGED <<enh_disk0, files_updated>>
  /\ UNCHANGED otherThanEnhanced

\* process_vault returns self.files_updated
EnhancedFinish ==
  /\ enh_pc = "loop" /\ enh_cursor > MaxFiles
  /\ enh_pc' = "done"
  /\ UNCHANGED <<enh_disk, enh_disk0, enh_cursor, enh_pending, enh_failed, files_updated>>
  /\ UNCHANGED otherThanEnhanced

NextEnhanced ==
  \/ EnhancedReadRaises
  \/ EnhancedLeavesFile
  \/ EnhancedOpensForWrite
  \/ EnhancedWriteCompletes
  \/ EnhancedWriteFails
  \/ EnhancedFinish

SpecEnhanced == InitEnhanced /\ [][NextEnhanced]_vars

(***************************************************************************)
(* e2b-launcher.py: main                                                   *)
(***************************************************************************)
max_retries == 3

MaxDownloads == 2

\* str(e) of the exceptions the SDK calls raise
ErrorMessages ==
  { <<"W","e","b","S","o","c","k","e","t"," ","c","l","o","s","e","d">>, <<"c","o","n","n","e","c","t","i","o","n"," ","r","e","f","u","s","e","d">>, <<"R","e","q","u","e","s","t"," ","T","i","m","e","o","u","t">>,
    <<"i","n","v","a","l","i","d"," ","a","p","i"," ","k","e","y">>, <<"t","e","m","p","l","a","t","e"," ","n","o","t"," ","f","o","u","n","d">> }

\* everything is retried
IsRetryable_always(message) == TRUE

\* error_msg = str(e).lower();
\* "websocket" in error_msg or "connection" in error_msg or "timeout" in error_msg
IsRetryable(message) ==
  \/ Contains(StrLower(message), <<"w","e","b","s","o","c","k","e","t">>)
  \/ Contains(StrLower(message), <<"c","o","n","n","e","c","t","i","o","n">>)
  \/ Contains(StrLower(message), <<"t","i","m","e","o","u","t">>)

\* sbx stays None until set_timeout has returned
Bound_afterSetTimeout(handle) == "none"

\* sbx = Sandbox.create(...): the local is bound as soon as create returns
Bound(handle) == handle

\* the commands main runs one after the other, the downloads aside
Stages == <<"install", "which", "path", "ls", "pwd", "whoami", "touch", "claude", "find">>

StageNames == {Stages[i] : i \in 1..Len(Stages)}

\* the stage after the creation loop: `if components_to_install`
FirstStage == IF components_to_install THEN "install" ELSE "which"

\* the stage after a command that returned with exit code 0 (ok) or not
StageAfter(stage, ok) ==
  CASE stage = "install" -> "which"
    [] stage = "which" -> IF ok THEN "pwd" ELSE "path"
    [] stage = "path" -> "ls"
    [] stage = "ls" -> "pwd"
    [] stage = "pwd" -> "whoami"
    [] stage = "whoami" -> "touch"
    [] stage = "touch" -> "claude"
    [] stage = "claude" -> "find"
    [] OTHER -> "download"

InitLauncher ==
  /\ IdleButLauncher
  /\ launch_pc = "create"
  /\ components_to_install \in BOOLEAN
  /\ retry_count = 0
  /\ sbx = "none"
  /\ create_calls = 0
  /\ created = 0
  /\ kill_calls = 0
  /\ commands_run = 0
  /\ launch_error = <<>>
  /\ to_download = 0
  /\ launch_exit = -1

\* except Exception as e of the creation loop, entered with message str(e):
\* count and continue, or raise e into the except clause of main
CreationExcept(message) ==
  /\ launch_error' = message
  /\ IF IsRetryable(message)
     THEN /\ retry_count' = retry_count + 1
          /\ launch_pc' = IF retry_count + 1 < max_retries
                          THEN (IF sbx' = "none" THEN "create" ELSE FirstStage)
                          ELSE "except"
     ELSE /\ launch_pc' = "except"
          /\ UNCHANGED retry_count

\* while retry_count < max_retries and sbx is None: Sandbox.create raises
CreateRaises ==
  /\ launch_pc = "create" /\ retry_count < max_retries /\ sbx = "none"
  /\ create_calls' = create_calls + 1
  /\ UNCHANGED <<sbx, created>>
  /\ \E message \in ErrorMessages : CreationExcept(message)
  /\ UNCHANGED <<components_to_install, kill_calls, commands_run, to_download, launch_exit>>
  /\ UNCHANGED otherThanLauncher

\* Sandbox.create returns a sandbox
CreateReturns ==
  /\ launch_pc = "create" /\ retry_count < max_retries /\ sbx = "none"
  /\ create_calls' = create_calls + 1
  /\ created' = created + 1
  /\ sbx' = Bound("sandbox")
  /\ launch_pc' = "set_timeout"
  /\ UNCHANGED <<components_to_install, retry_count, kill_calls, commands_run, launch_error,
                 to_download, launch_exit>>
  /\ UNCHANGED otherThanLauncher

\* sbx.set_timeout(900) raises inside the try of the creation loop
SetTimeoutRaises ==
  /\ launch_pc = "set_timeout"
  /\ sbx' = sbx
  /\ \E message \in ErrorMessages : CreationExcept(message)
  /\ UNCHANGED <<components_to_install, create_calls, created, kill_calls, commands_run,
                 to_download, launch_exit>>
  /\ UNCHANGED otherThanLauncher

\* sbx.set_timeout(900) returns: break, `if sbx is None` is false
SetTimeoutReturns ==
  /\ launch_pc = "set_timeout"
  /\ sbx' = "sandbox"
  /\ launch_pc' = FirstStage
  /\ UNCHANGED <<components_to_install, retry_count, create_calls, created, kill_calls,
                 commands_run, launch_error, to_download, launch_exit>>
  /\ UNCHANGED otherThanLauncher

\* sbx.commands.run(...) returns, with exit code 0 or another; the find
\* listing names the files to download
CommandReturns ==
  /\ launch_pc \in StageNames
  /\ commands_run' = commands_run + 1
  /\ \E ok \in BOOLEAN : launch_pc' = StageAfter(launch_pc, ok)
  /\ IF launch_pc = "find" THEN to_download' \in 0..MaxDownloads ELSE UNCHANGED to_download
  /\ UNCHANGED <<components_to_install, retry_count, sbx, create_calls, created, kill_calls,
                 launch_error, launch_exit>>
  /\ UNCHANGED otherThanLauncher

\* sbx.commands.run(...) raises: the except clause of main
CommandRaises ==
  /\ launch_pc \in StageNames
  /\ commands_run' = commands_run + 1
  /\ \E message \in ErrorMessages : launch_error' = message
  /\ launch_pc' = "except"
  /\ UNCHANGED <<components_to_install, retry_count, sbx, create_calls, created, kill_calls,
                 to_download, launch_exit>>
  /\ UNCHANGED otherThanLauncher

\* one file of the listing: cat returns or raises, `except Exception` of the
\* loop prints and goes on
DownloadFile ==
  /\ launch_pc = "download" /\ to_download > 0
  /\ commands_run' = commands_run + 1
  /\ to_download' = to_download - 1
  /\ UNCHANGED <<launch_pc, components_to_install, retry_count, sbx, create_calls, created,
                 kill_calls, launch_error, launch_exit>>
  /\ UNCHANGED otherThanLauncher

\* the try block ends: "Execution completed successfully"
Completed ==
  /\ launch_pc = "download" /\ to_download = 0
  /\ launch_exit' = 0
  /\ launch_pc' = "finally"
  /\ UNCHANGED <<components_to_install, retry_count, sbx, create_calls, created, kill_calls,
                 commands_run, launch_error, to_download>>
  /\ UNCHANGED otherThanLauncher

\* except Exception as e: print, sys.exit(1)
LauncherExcept ==
  /\ launch_pc = "except"
  /\ launch_exit' = 1
  /\ launch_pc' = "finally"
  /\ UNCHANGED <<components_to_install, retry_count, sbx, create_calls, created, kill_calls,
                 commands_run, launch_error, to_download>>
  /\ UNCHANGED otherThanLauncher

\* finally: sbx.kill() on a sandbox, returning or raising into
\* `except Exception as cleanup_error`
CleanupKills ==
  /\ launch_pc = "finally" /\ sbx # "none"
  /\ kill_calls' = kill_calls + 1
  /\ launch_pc' = "exited"
  /\ UNCHANGED <<components_to_install, retry_count, sbx, create_calls, created, commands_run,
                 launch_error, to_download, launch_exit>>
  /\ UNCHANGED otherThanLauncher

\* finally: sbx is None, sbx.kill() raises AttributeError, which is printed
\* as a cleanup warning
CleanupWithoutSandbox ==
  /\ launch_pc = "finally" /\ sbx = "none"
  /\ launch_pc' = "exited"
  /\ UNCHANGED <<components_to_install, retry_count, sbx, create_calls, created, kill_calls,
                 commands_run, launch_error, to_download, launch_exit>>
  /\ UNCHANGED otherThanLauncher

NextLauncher ==
  \/ CreateRaises
  \/ CreateReturns
  \/ SetTimeoutRaises
  \/ SetTimeoutReturns
  \/ CommandReturns
  \/ CommandRaises
  \/ DownloadFile
  \/ Completed
  \/ LauncherExcept
  \/ CleanupKills
  \/ CleanupWithoutSandbox

SpecLauncher == InitLauncher /\ [][NextLauncher]_vars

(***************************************************************************)
(* e2b-monitor.py: enhanced_sandbox_execution                              *)
(***************************************************************************)
\* the SDK calls of enhanced_sandbox_execution in program order; fn is the
\* function that makes the call
MonitorSteps ==
  << [fn |-> "create", block |-> 0],
     [fn |-> "set_timeout", block |-> 0],
     [fn |-> "monitor_system_resources", block |-> 1],
     [fn |-> "monitor_system_resources", block |-> 1],
     [fn |-> "monitor_system_resources", block |-> 1],
     [fn |-> "monitor_file_system", block |-> 2],
     [fn |-> "monitor_file_system", block |-> 2],
     [fn |-> "monitor_file_system", block |-> 2],
     [fn |-> "monitor_file_system", block |-> 2],
     [fn |-> "install", block |-> 0],
     [fn |-> "monitor_file_system", block |-> 3],
     [fn |-> "monitor_file_system", block |-> 3],
     [fn |-> "monitor_file_system", block |-> 3],
     [fn |-> "monitor_file_system", block |-> 3],
     [fn |-> "which", block |-> 0],
     [fn |-> "version", block |-> 0],
     [fn |-> "claude", block |-> 0],
     [fn |-> "monitor_file_system", block |-> 4],
     [fn |-> "monitor_file_system", block |-> 4],
     [fn |-> "monitor_file_system", block |-> 4],
     [fn |-> "monitor_file_system", block |-> 4],
     [fn |-> "kill", block |-> 0] >>

StepCount == Len(MonitorSteps)

\* `if components_to_install` and `if claude_check.exit_code == 0`
Skipped(i, took_install, found_claude) ==
  \/ i \in 10..14 /\ ~ took_install
  \/ i = 16 /\ ~ found_claude

\* the first step after step i that is not skipped
RECURSIVE StepFrom(_, _, _)
StepFrom(i, took_install, found_claude) ==
  IF i <= StepCount /\ Skipped(i, took_install, found_claude)
  THEN StepFrom(i + 1, took_install, found_claude)
  ELSE i

\* the first step after the block of step i
RECURSIVE AfterBlock(_, _)
AfterBlock(i, block) ==
  IF i <= StepCount /\ MonitorSteps[i].block = block THEN AfterBlock(i + 1, block) ELSE i

InitMonitor ==
  /\ IdleButMonitor
  /\ mon_pc = 1
  /\ mon_args \in [components : BOOLEAN, keys : BOOLEAN]
  /\ mon_sbx = "none"
  /\ mon_kill_calls = 0
  /\ mon_commands = 0
  /\ mon_returned = "running"

MonitorRunning(fns) ==
  mon_returned = "running" /\ mon_pc <= StepCount /\ MonitorSteps[mon_pc].fn \in fns

\* except Exception as e: log, return False
MonitorReturnsFalse ==
  /\ mon_returned' = "False"
  /\ UNCHANGED <<mon_pc, mon_args, mon_sbx>>

\* if not e2b_api_key or not anthropic_api_key: return False
MonitorMissingKeys ==
  /\ MonitorRunning({"create"}) /\ ~ mon_args.keys
  /\ MonitorReturnsFalse
  /\ UNCHANGED <<mon_kill_calls, mon_commands>>
  /\ UNCHANGED otherThanMonitor

\* Sandbox.create raises
MonitorCreateRaises ==
  /\ MonitorRunning({"create"}) /\ mon_args.keys
  /\ MonitorReturnsFalse
  /\ UNCHANGED <<mon_kill_calls, mon_commands>>
  /\ UNCHANGED otherThanMonitor

\* sbx = Sandbox.create(...)
MonitorCreateReturns ==
  /\ MonitorRunning({"create"}) /\ mon_args.keys
  /\ mon_sbx' = "sandbox"
  /\ mon_pc' = mon_pc + 1
  /\ UNCHANGED <<mon_args, mon_kill_calls, mon_commands, mon_returned>>
  /\ UNCHANGED otherThanMonitor

\* sbx.set_timeout(900) raises
MonitorSetTimeoutRaises ==
  /\ MonitorRunning({"set_timeout"})
  /\ MonitorReturnsFalse
  /\ UNCHANGED <<mon_kill_calls, mon_commands>>
  /\ UNCHANGED otherThanMonitor

\* sbx.set_timeout(900) returns
MonitorSetTimeoutReturns ==
  /\ MonitorRunning({"set_timeout"})
  /\ mon_pc' = mon_pc + 1
  /\ UNCHANGED <<mon_args, mon_sbx, mon_kill_calls, mon_commands, mon_returned>>
  /\ UNCHANGED otherThanMonitor

\* a command of monitor_system_resources or monitor_file_system returns
CheckCommandReturns ==
  /\ MonitorRunning({"monitor_system_resources", "monitor_file_system"})
  /\ mon_commands' = mon_commands + 1
  /\ mon_pc' = StepFrom(mon_pc + 1, mon_args.components, TRUE)
  /\ UNCHANGED <<mon_args, mon_sbx, mon_kill_calls, mon_returned>>
  /\ UNCHANGED otherThanMonitor

\* a command of monitor_system_resources or monitor_file_system raises:
\* the function logs the error and returns
CheckCommandRaises ==
  /\ MonitorRunning({"monitor_system_resources", "monitor_file_system"})
  /\ mon_commands' = mon_commands + 1
  /\ mon_pc' = StepFrom(AfterBlock(mon_pc, MonitorSteps[mon_pc].block), mon_args.components, TRUE)
  /\ UNCHANGED <<mon_args, mon_sbx, mon_kill_calls, mon_returned>>
  /\ UNCHANGED otherThanMonitor

\* monitor_sandbox_execution returns the result of its command
MonitoredCommandReturns ==
  /\ MonitorRunning({"install", "which", "version", "claude"})
  /\ mon_commands' = mon_commands + 1
  /\ \E exit_ok \in BOOLEAN :
       mon_pc' = StepFrom(mon_pc + 1, mon_args.components,
                          MonitorSteps[mon_pc].fn = "which" => exit_ok)
  /\ UNCHANGED <<mon_args, mon_sbx, mon_kill_calls, mon_returned>>
  /\ UNCHANGED otherThanMonitor

\* monitor_sandbox_execution: sbx.commands.run raises, `raise e`, and
\* enhanced_sandbox_execution returns False
MonitoredCommandRaises ==
  /\ MonitorRunning({"install", "which", "version", "claude"})
  /\ mon_commands' = mon_commands + 1
  /\ MonitorReturnsFalse
  /\ UNCHANGED mon_kill_calls
  /\ UNCHANGED otherThanMonitor

\* sbx.kill() returns: return True
MonitorKillReturns ==
  /\ MonitorRunning({"kill"})
  /\ mon_kill_calls' = mon_kill_calls + 1
  /\ mon_returned' = "True"
  /\ UNCHANGED <<mon_pc, mon_args, mon_sbx, mon_commands>>
  /\ UNCHANGED otherThanMonitor

\* sbx.kill() raises: return False
MonitorKillRaises ==
  /\ MonitorRunning({"kill"})
  /\ mon_kill_calls' = mon_kill_calls + 1
  /\ MonitorReturnsFalse
  /\ UNCHANGED mon_commands
  /\ UNCHANGED otherThanMonitor

NextMonitor ==
  \/ MonitorMissingKeys
  \/ MonitorCreateRaises
  \/ MonitorCreateReturns
  \/ MonitorSetTimeoutRaises
  \/ MonitorSetTimeoutReturns
  \/ CheckCommandReturns
  \/ CheckCommandRaises
  \/ MonitoredCommandReturns
  \/ MonitoredCommandRaises
  \/ MonitorKillReturns
  \/ MonitorKillRaises

SpecMonitor == InitMonitor /\ [][NextMonitor]_vars

(***************************************************************************)
(* add_link_to_file of find_keyword_connections.py and of                  *)
(* implement_entity_connections.py, called again and again on one note     *)
(***************************************************************************)
MaxLinkCalls == 3

LinkTargets == { <<"A">>, <<"B">> }

\* contents of the note the links are added to
LinkFiles ==
  { <<>>, <<"n","o","t","e","s">>, <<"n","o","t","e","s","\n">>,
    <<"n","o","t","e","s","\n","#","#"," ","R","e","l","a","t","e","d">>, <<"n","o","t","e","s","\n","#","#"," ","R","e","l","a","t","e","d","\n","-"," ","[","[","Z","]","]","\n">>,
    <<"s","e","e"," ","[","[","A","]","]","\n">>, <<"#"," ","S","e","e"," ","a","l","s","o","\n","x","\n">>,
    <<"-","-","-","\n","t","i","t","l","e",":"," ","x","\n","-","-","-","\n","b","o","d","y","\n">>, <<"-","-","-","\n","t","i","t","l","e",":"," ","x","\n","-","-","-","\n","\n","b","o","d","y">>, <<"-","-","-","\n","t","i","t","l","e",":"," ","x","\n","-","-","-">> }

\* the link_text the caller passes: keyword_text, f"Related to {entity}"
LinkTextOf(strategy) ==
  IF strategy = "keyword" THEN KeywordText({<<"l","l","m">>}) ELSE EntityText(<<"l","l","m">>)

\* what the script's add_link_to_file writes for the content it has read
AddLinkResult(strategy, content, link_to_add) ==
  IF strategy = "keyword" THEN keyword_add_link(content, link_to_add, LinkTextOf(strategy))
  ELSE entity_add_link(content, link_to_add, LinkTextOf(strategy))

InitLink ==
  /\ IdleButLink
  /\ link_strategy \in {"keyword", "entity"}
  /\ link_file \in LinkFiles
  /\ link_file0 = link_file
  /\ link_calls = 0
  /\ link_call = [target |-> <<>>, before |-> <<>>, returned |-> FALSE]

\* the call returns: False without writing, or True after the write
AddLinkReturns(link_to_add, new_content) ==
  /\ link_file' = new_content
  /\ link_call' = [target |-> link_to_add, before |-> link_file,
                   returned |-> new_content # link_file]
  /\ link_calls' = link_calls + 1
  /\ UNCHANGED <<link_strategy, link_file0>>

\* the read raises, or the write does after open(file_path, 'w'): False
AddLinkFails(link_to_add, new_content) ==
  /\ link_file' \in {link_file}
                    \cup (IF new_content # link_file THEN PartialWrites(new_content) ELSE {})
  /\ link_call' = [target |-> link_to_add, before |-> link_file, returned |-> FALSE]
  /\ link_calls' = link_calls + 1
  /\ UNCHANGED <<link_strategy, link_file0>>

\* find_keyword_connections.add_link_to_file(file_path, link_to_add, link_text)
KeywordAddLinkReturns ==
  /\ link_strategy = "keyword" /\ link_calls < MaxLinkCalls
  /\ \E link_to_add \in LinkTargets :
       AddLinkReturns(link_to_add, AddLinkResult("keyword", link_file, link_to_add))
  /\ UNCHANGED otherThanLink

\* ... except Exception as e: print, return False
KeywordAddLinkRaises ==
  /\ link_strategy = "keyword" /\ link_calls < MaxLinkCalls
  /\ \E link_to_add \in LinkTargets :
       AddLinkFails(link_to_add, AddLinkResult("keyword", link_file, link_to_add))
  /\ UNCHANGED otherThanLink

\* implement_entity_connections.add_link_to_file(file_path, link_to_add, link_text)
EntityAddLinkReturns ==
  /\ link_strategy = "entity" /\ link_calls < MaxLinkCalls
  /\ \E link_to_add \in LinkTargets :
       AddLinkReturns(link_to_add, AddLinkResult("entity", link_file, link_to_add))
  /\ UNCHANGED otherThanLink

\* read_file returns None or write_file returns False
EntityAddLinkFails ==
  /\ link_strategy = "entity" /\ link_calls < MaxLinkCalls
  /\ \E link_to_add \in LinkTargets :
       AddLinkFails(link_to_add, AddLinkResult("entity", link_file, link_to_add))
  /\ UNCHANGED otherThanLink

NextLink ==
  \/ KeywordAddLinkReturns
  \/ KeywordAddLinkRaises
  \/ EntityAddLinkReturns
  \/ EntityAddLinkFails

SpecLink == InitLink /\ [][NextLink]_vars

(***************************************************************************)
(* generate_components_json.py: the paging loop of fetch_download_stats    *)
(* with the limit and the page count of the code; the table and a batch    *)
(* are known by their number of rows                                       *)
(***************************************************************************)
limit == 1000

max_pages == 200

TableSizes == {0, 1, 999, 1000, 1001, 2000, 2500, 199500, 200000, 200500}

\* the rows the server returns for Range lo..lo+limit-1
BatchRows(rows, lo) ==
  IF lo >= rows THEN 0 ELSE IF lo + limit < rows THEN limit ELSE rows - lo

\* what follows the '/' of content-range: no header, '*', the number of
\* rows, or text int() rejects
NoTotal == [kind |-> "none", n |-> 0]

ReportedTotals(rows) ==
  {NoTotal, [kind |-> "*", n |-> 0], [kind |-> "bad", n |-> 0], [kind |-> "number", n |-> rows]}

\* the next offset leaves the last row of the page to be fetched again
NextOffset_overlapping(lo) == lo + limit - 1

\* offset += limit
NextOffset(lo) == lo + limit

\* if content_range and '/' in content_range, parts[1] != '*', int(parts[1])
\* does not raise: offset + limit >= total
ReachesTotal(lo, reported) == reported.kind = "number" /\ lo + limit >= reported.n

InitPaging ==
  /\ IdleButPaging
  /\ pg_pc = "request"
  /\ pg_rows \in TableSizes
  /\ pg_offset = 0
  /\ pg_requests = 0
  /\ pg_range = <<0, 0>>
  /\ pg_response = [status |-> 0, rows |-> 0, total |-> NoTotal]
  /\ pg_fetched = 0

\* for page in range(max_pages): the Range header and requests.get
Requesting ==
  /\ pg_pc = "request" /\ pg_requests < max_pages
  /\ pg_requests' = pg_requests + 1
  /\ pg_range' = <<pg_offset, pg_offset + limit - 1>>
  /\ UNCHANGED pg_rows

\* break, or `except Exception`: the loop is left
LeavesLoop ==
  /\ pg_pc' = "done"
  /\ UNCHANGED pg_offset

\* requests.get or response.json() raises: except Exception, return {}
PagingRequestRaises ==
  /\ Requesting
  /\ pg_response' = [status |-> 0, rows |-> 0, total |-> NoTotal]
  /\ LeavesLoop
  /\ UNCHANGED pg_fetched
  /\ UNCHANGED otherThanPaging

\* status_code not in [200, 206]: break
PagingBadStatus ==
  /\ Requesting
  /\ \E status \in {404, 416, 500} :
       pg_response' = [status |-> status, rows |-> 0, total |-> NoTotal]
  /\ LeavesLoop
  /\ UNCHANGED pg_fetched
  /\ UNCHANGED otherThanPaging

\* if not batch: break
PagingEmptyPage ==
  /\ Requesting
  /\ BatchRows(pg_rows, pg_offset) = 0
  /\ \E status \in {200, 206} : \E reported \in ReportedTotals(pg_rows) :
       pg_response' = [status |-> status, rows |-> 0, total |-> reported]
  /\ LeavesLoop
  /\ UNCHANGED pg_fetched
  /\ UNCHANGED otherThanPaging

\* all_downloads.extend(batch); if len(batch) < limit: break
PagingShortPage ==
  /\ Requesting
  /\ BatchRows(pg_rows, pg_offset) \in 1..(limit - 1)
  /\ \E status \in {200, 206} : \E reported \in ReportedTotals(pg_rows) :
       pg_response' = [status |-> status, rows |-> BatchRows(pg_rows, pg_offset),
                       total |-> reported]
  /\ pg_fetched' = pg_fetched + BatchRows(pg_rows, pg_offset)
  /\ LeavesLoop
  /\ UNCHANGED otherThanPaging

\* a full page whose content-range total is reached: break
PagingReachesTotal ==
  /\ Requesting
  /\ BatchRows(pg_rows, pg_offset) = limit
  /\ \E status \in {200, 206} : \E reported \in ReportedTotals(pg_rows) :
       /\ ReachesTotal(pg_offset, reported)
       /\ pg_response' = [status |-> status, rows |-> limit, total |-> reported]
  /\ pg_fetched' = pg_fetched + limit
  /\ LeavesLoop
  /\ UNCHANGED otherThanPaging

\* a full page and no total reached: offset += limit, and the for loop
\* goes on while pages are left
PagingNextPage ==
  /\ Requesting
  /\ BatchRows(pg_rows, pg_offset) = limit
  /\ \E status \in {200, 206} : \E reported \in ReportedTotals(pg_rows) :
       /\ ~ ReachesTotal(pg_offset, reported)
       /\ pg_response' = [status |-> status, rows |-> limit, total |-> reported]
  /\ pg_fetched' = pg_fetched + limit
  /\ pg_offset' = NextOffset(pg_offset)
  /\ pg_pc' = IF pg_requests + 1 < max_pages THEN "request" ELSE "done"
  /\ UNCHANGED otherThanPaging

NextPaging ==
  \/ PagingRequestRaises
  \/ PagingBadStatus
  \/ PagingEmptyPage
  \/ PagingShortPage
  \/ PagingReachesTotal
  \/ PagingNextPage

SpecPaging == InitPaging /\ [][NextPaging]_vars

\* every call of requests.get returns or raises
FairSpecPaging == SpecPaging /\ WF_vars(NextPaging)

(***************************************************************************)
(* C1. Tag normalisation is idempotent: normalising an already normalised  *)
(* tag returns it unchanged, for normalize_tag and for enhance_tag.        *)
(***************************************************************************)
C1_Idempotent ==
  tag_step = "renormalized" => renormalized = normalized

(***************************************************************************)
(* C5. For a list of tags, standardize_tags returns a list without         *)
(* duplicates and without empty entries, holding exactly the non-empty     *)
(* normalisations of the string entries, each at the position given by     *)
(* the first input entry that normalises to it.                            *)
(***************************************************************************)
\* index of the first string entry of the input that normalises to x
FirstSeen(items, x) ==
  CHOOSE i \in 1..Len(items) :
    /\ items[i].t = "str" /\ normalize_tag(items[i].s) = x
    /\ \A j \in 1..(i-1) : ~ (items[j].t = "str" /\ normalize_tag(items[j].s) = x)

C5_DistinctOrdered ==
  (tag_step = "standardized" /\ tags.t = "list") =>
    LET out == standardized.items
        inp == tags.items
    IN /\ standardized.t = "list"
       /\ \A i \in 1..Len(out) : out[i].t = "str" /\ out[i].s # <<>>
       /\ \A i, j \in 1..Len(out) : i # j => out[i] # out[j]
       /\ \A i \in 1..Len(out) :
            \E k \in 1..Len(inp) : inp[k].t = "str" /\ normalize_tag(inp[k].s) = out[i].s
       /\ \A k \in 1..Len(inp) :
            (inp[k].t = "str" /\ normalize_tag(inp[k].s) # <<>>) =>
              \E i \in 1..Len(out) : out[i].s = normalize_tag(inp[k].s)
       /\ \A i, j \in 1..Len(out) :
            i < j => FirstSeen(inp, out[i].s) < FirstSeen(inp, out[j].s)

\* a list in which a later entry repeats an earlier one after normalisation
\* and an entry normalises to the empty string has been standardized
C5_Witness ==
  /\ tag_step = "standardized" /\ tags.t = "list"
  /\ \E i, j \in 1..Len(tags.items) :
       /\ i < j /\ tags.items[i].t = "str" /\ tags.items[j].t = "str"
       /\ tags.items[i] # tags.items[j]
       /\ normalize_tag(tags.items[i].s) = normalize_tag(tags.items[j].s)
  /\ \E k \in 1..Len(tags.items) : tags.items[k].t = "str" /\ normalize_tag(tags.items[k].s) = <<>>
  /\ Len(standardized.items) = 1

(***************************************************************************)
(* C6. Normalising the tag list ["AI", "ai", "Business-Strategy"] yields   *)
(* exactly ["ai", "business/strategy"].                                    *)
(***************************************************************************)
C6_Example ==
  (/\ tag_step = "standardized"
   /\ tags = PyList(<<PyStr(TagAI), PyStr(TagAiLower), PyStr(TagBusinessStrategy)>>))
    => standardized = PyList(<<PyStr(TagAiLower), PyStr(TagBusinessStrategySlash)>>)

(***************************************************************************)
(* C7. Every tag the tag standardizer writes back (an entry of the list    *)
(* that standardize_tags returns and process_file stores under `tags`) is  *)
(* a value of the static mapping or is entirely lowercase with no spaces.  *)
(***************************************************************************)
IsMappingValue(s) == \E i \in 1..Len(standard_mappings) : standard_mappings[i][2] = s

IsLowerNoSpace(s) == \A i \in 1..Len(s) : s[i] # " " /\ LowerChar(s[i]) = s[i]

C7_LowercaseOrCanonical ==
  tag_step = "standardized" =>
    \A i \in 1..Len(standardized.items) :
      IsMappingValue(standardized.items[i].s) \/ IsLowerNoSpace(standardized.items[i].s)

(***************************************************************************)
(* C2. Metadata round trip: parsing the text that process_file writes,     *)
(* '---\n' + dump(m) + '---\n' + b, returns exactly (m, b), the keys of m  *)
(* in their original order.                                                *)
(***************************************************************************)
C2_RoundTrip ==
  fm_step = "reparsed" => (out_meta = fm_meta /\ out_body = fm_body)

(***************************************************************************)
(* C3. Fail-soft parsing: whenever extract_frontmatter reports absent      *)
(* metadata (None), the body it returns is the complete input text.        *)
(***************************************************************************)
C3_FailSoft ==
  (fm_step \in {"parsed", "reparsed"} /\ out_meta = PyNone) => out_body = fm_text

(***************************************************************************)
(* C4. A document whose metadata block fails to parse (no closing          *)
(* delimiter, or malformed YAML between the delimiters) is left untouched  *)
(* by TagStandardizer.process_file and by process_daily_note: the run      *)
(* never replaces its content by a new one, and the run is not aborted.    *)
(***************************************************************************)
BlockFailsToParse(content) ==
  /\ StartsWith(content, Delimiter)
  /\ LET lines == Split(content, NL)
         end_idx == FindEnd(lines)
     IN \/ end_idx = 0
        \/ ~ yaml_safe_load(Join(SubSeq(lines, 2, end_idx - 1), NL)).ok

C4_UntouchedOnParseFailure ==
  tool \in {"TagStandardizer", "DailyNotesConnector"} =>
    /\ pc # "aborted"
    /\ \A f \in FileIds :
         BlockFailsToParse(disk0[f]) =>
           ~ (f \in opened /\ disk[f] = intended[f] /\ disk[f] # disk0[f])

(***************************************************************************)
(* C8. In dry-run mode no file of the vault is written: every document     *)
(* keeps the content it had before the run; and the 'updated' count that   *)
(* process_vault returns equals the number of documents a non-dry run      *)
(* rewrites, documents whose read or write raises set aside.  The second   *)
(* conjunct ties that number to what the non-dry runs of the model do.     *)
(***************************************************************************)
\* the documents a non-dry run of the tool decides to rewrite
RewrittenByNonDryRun(t, contents) ==
  {f \in FileIds :
     IF t = "TagStandardizer" THEN TagPlan(contents[f]).rewrite
     ELSE ~ has_frontmatter(contents[f])}

C8_DryRunWritesNothing ==
  tool \in {"TagStandardizer", "MetadataAdder"} =>
    /\ dry_run =>
         /\ disk = disk0 /\ opened = {}
         /\ pc = "done" =>
              stats.updated = Cardinality(RewrittenByNonDryRun(tool, disk0) \ io_failed)
    /\ (~ dry_run /\ pc = "done") =>
         /\ {f \in FileIds : disk[f] # disk0[f]} \ io_failed
              = RewrittenByNonDryRun(tool, disk0) \ io_failed
         /\ stats.updated = Cardinality(RewrittenByNonDryRun(tool, disk0) \ io_failed)

\* a dry run has finished and counted a document as updated and another
\* as not
C8_Witness ==
  /\ dry_run /\ pc = "done"
  /\ stats.updated >= 1 /\ stats.updated < stats.processed
  /\ io_failed = {}

(***************************************************************************)
(* C9. Per-document error isolation: a failure to read or write one        *)
(* document does not abort the run; every document of the corpus is        *)
(* processed, in every loop and in both modes of the metadata adder.       *)
(***************************************************************************)
C9_ErrorIsolation ==
  /\ pc # "aborted"
  /\ pc = "done" => visited = {Corpus(tool)[k] : k \in 1..Len(Corpus(tool))}

(***************************************************************************)
(* C10. A document rewrite is all-or-nothing: once a step of the run is    *)
(* over, also one whose write failed part-way, each document holds its     *)
(* complete old content or its complete new content.                       *)
(***************************************************************************)
C10_AllOrNothing ==
  pc # "writing" =>
    \A f \in FileIds :
      disk[f] = disk0[f] \/ (f \in opened /\ disk[f] = intended[f])

(***************************************************************************)
(* C11. MOC generation never overwrites: a call of create_moc_file that    *)
(* finds a file at its output path returns False and leaves every file as  *)
(* it was; and once a call has returned True for a path, the file at that  *)
(* path holds the content of the first such call, whatever calls follow.   *)
(***************************************************************************)
C11_NeverOverwrites ==
  /\ (moc_calls > 0 /\ moc_before[moc_path].exists) =>
       (moc_result = "False" /\ moc_files = moc_before)
  /\ \A p \in MocPaths : moc_first[p].exists => moc_files[p] = moc_first[p]

\* a call found the file an earlier call had written, and had generated
\* another content for it
C11_Witness ==
  /\ moc_calls >= 2
  /\ moc_first[moc_path].exists
  /\ moc_before[moc_path] = moc_first[moc_path]
  /\ moc_content # moc_first[moc_path].content
  /\ moc_result = "False"

\* the scan of the component tree is over
Scanned == man_pc \in {"write", "done"}

\* the files of a component type that are components
ComponentFiles(component_type) ==
  {f \in tree :
     LET parts == Split(f, "/") IN
       /\ parts[1] = <<"c","o","m","p","o","n","e","n","t","s">> /\ parts[2] = component_type
       /\ IF component_type = <<"s","k","i","l","l","s">>
          THEN Len(parts) = 5 /\ parts[5] = <<"S","K","I","L","L",".","m","d">>
          ELSE Len(parts) = 4 /\ (EndsWith(parts[4], <<".","m","d">>) \/ EndsWith(parts[4], <<".","j","s","o","n">>))}

\* the path an entry carries for a file
EntryPath(component_type, f) ==
  LET parts == Split(f, "/") IN parts[3] \o <<"/">> \o parts[4]

EntryKey(component_type, entry) == ComponentKey(component_type, entry.category, entry.name)

(***************************************************************************)
(* C12. Every component file of the scanned tree (an .md or .json file of  *)
(* a category directory; SKILL.md of a skill directory) has exactly one    *)
(* entry in the manifest, and no two entries of a component type share     *)
(* their type/category/name key.                                           *)
(***************************************************************************)
C12_OneEntryPerFile ==
  Scanned =>
    \A k \in 1..Len(component_types) :
      LET entries == components_data.components[k] IN
        /\ \A f \in ComponentFiles(component_types[k]) :
             Cardinality({i \in 1..Len(entries) :
                            entries[i].path = EntryPath(component_types[k], f)}) = 1
        /\ \A i, j \in 1..Len(entries) :
             i # j => EntryKey(component_types[k], entries[i])
                        # EntryKey(component_types[k], entries[j])

\* the keys the download stats hold
StatsKeys == {download_stats[i][1] : i \in 1..Len(download_stats)}

(***************************************************************************)
(* C13. Every entry of the manifest comes from a scanned file, a template  *)
(* directory or a marketplace plugin, its 'downloads' is the count stored  *)
(* under its key or 0, and a key of the download stats that no scanned     *)
(* component has is the key of no entry.                                   *)
(***************************************************************************)
C13_UnmatchedStatsDropped ==
  Scanned =>
    /\ \A k \in 1..Len(component_types) :
         LET entries == components_data.components[k]
             files == ComponentFiles(component_types[k])
         IN /\ Len(entries) <= Cardinality(files)
            /\ \A i \in 1..Len(entries) :
                 /\ \E f \in files : entries[i].path = EntryPath(component_types[k], f)
                 /\ entries[i].downloads
                      = DictGet(download_stats, EntryKey(component_types[k], entries[i]), 0)
            /\ \A key \in StatsKeys :
                 (\A f \in files :
                    key # ComponentKey(component_types[k], Split(f, "/")[3],
                                       IF component_types[k] = <<"s","k","i","l","l","s">>
                                       THEN Split(f, "/")[4]
                                       ELSE SplitextStem(Split(f, "/")[4])))
                 => \A i \in 1..Len(entries) : EntryKey(component_types[k], entries[i]) # key
    /\ \A i \in 1..Len(components_data.templates) :
         /\ components_data.templates[i].name \in LanguageDirs(tree) \cup FrameworkDirs(tree)
         /\ components_data.templates[i].downloads
              = DictGet(download_stats, <<"t","e","m","p","l","a","t","e","s","/">> \o components_data.templates[i].name, 0)
    /\ \A i \in 1..Len(components_data.plugins) :
         /\ \E n \in 1..Len(plugins) : plugins[n] = components_data.plugins[i].name
         /\ components_data.plugins[i].downloads
              = DictGet(download_stats, <<"p","l","u","g","i","n","s","/">> \o components_data.plugins[i].name, 0)

\* the manifest is written; the stats held a key of a scanned component
\* and a key of none, and an entry without downloads stands next to one
\* with downloads
C13_Witness ==
  /\ man_pc = "done" /\ output = "written"
  /\ <<"a","g","e","n","t","s","/","g","e","n","e","r","a","l","/","g","h","o","s","t">> \in StatsKeys
  /\ <<"a","g","e","n","t","s","/","d","e","v","/","a">> \in StatsKeys
  /\ Len(components_data.components[1]) = 1
  /\ components_data.components[1][1].downloads >= 1
  /\ Len(components_data.components[5]) = 1
  /\ components_data.components[5][1].downloads = 0

\* the audit did not run to its end
SecurityFailed == security_outcome \in {"timeout", "not_found", "error"}

C15_FetchErrorGivesEmpty ==
  (man_pc \in {"scan", "write", "done"} /\ fetch_error # "none") => download_stats = <<>>

\* the text following the closing delimiter as extract_frontmatter returns it
DailyBodyOf(content) == daily_extract_frontmatter(content)[2]

\* the body of a note: the text following the line of the closing delimiter
\* (the line break that ends the delimiter line is no part of the body)
BodyAfterDelimiterLine(content) ==
  IF StartsWith(content, Delimiter) /\ StartsWith(DailyBodyOf(content), <<"\n">>)
  THEN StrFrom(DailyBodyOf(content), 2)
  ELSE DailyBodyOf(content)

\* the notes the connector has rewritten in full
DailyRewritten ==
  {f \in FileIds : /\ tool = "DailyNotesConnector"
                   /\ f \in visited /\ f \notin io_failed
                   /\ ~ (pc = "writing" /\ f = CurrentFile)
                   /\ disk[f] # disk0[f]}

(***************************************************************************)
(* C16. After DailyNotesConnector.process_daily_note has rewritten the     *)
(* metadata block of a note, the text following the closing delimiter is   *)
(* the body the note had before the rewrite.                               *)
(***************************************************************************)
C16_BodyUnchanged ==
  \A f \in DailyRewritten :
    BodyAfterDelimiterLine(disk[f]) = BodyAfterDelimiterLine(disk0[f])

\* two notes that reference each other by title when the strategy starts
AlreadyLinked(a, b) ==
  /\ Contains(conn_docs0[a], WikiLink(b))
  /\ Contains(conn_docs0[b], WikiLink(a))

(***************************************************************************)
(* C17. For every pair of notes that already reference each other by title *)
(* (an inline [[title]] in each direction), neither strategy emits a       *)
(* connection: the pair is no connection of find_keyword_connections, and  *)
(* neither strategy adds a link between the two.                           *)
(***************************************************************************)
C17_LinkedPairsExcluded ==
  conn_strategy # "none" =>
    \A a, b \in TitleSet :
      (a # b /\ AlreadyLinked(a, b)) =>
        /\ \A i \in 1..Len(connections) :
             {connections[i].file1, connections[i].file2} # {a, b}
        /\ <<a, b>> \notin links_added /\ <<b, a>> \notin links_added

\* the words of a command
Words(cmd) == Split(cmd, " ")

\* the command carries a force option: --force, one of its longer forms
\* (--force-with-lease, --force-if-includes), -f, or a cluster of short
\* options with f in it
CarriesForceOption(cmd) ==
  \E k \in 1..Len(Words(cmd)) :
    \/ StartsWith(Words(cmd)[k], <<"-","-","f","o","r","c","e">>)
    \/ /\ StartsWith(Words(cmd)[k], <<"-">>) /\ ~ StartsWith(Words(cmd)[k], <<"-", "-">>)
       /\ FindChar(Words(cmd)[k], "f") # 0

HookDone(name) == hook = name /\ hook_pc = "done" /\ valid_json

(***************************************************************************)
(* C18. The direct-push hook denies every Bash command that contains       *)
(* 'git push', is issued on main or develop or names 'origin main' or      *)
(* 'origin develop', and carries no --force or -f option.                  *)
(***************************************************************************)
C18_DeniesProtectedPush ==
  ( /\ HookDone("prevent-direct-push")
    /\ tool_name = <<"B","a","s","h">> /\ Contains(command, <<"g","i","t"," ","p","u","s","h">>)
    /\ \/ current_branch \in { <<"m","a","i","n">>, <<"d","e","v","e","l","o","p">> }
       \/ Contains(command, <<"o","r","i","g","i","n"," ","m","a","i","n">>)
       \/ Contains(command, <<"o","r","i","g","i","n"," ","d","e","v","e","l","o","p">>)
    /\ ~ CarriesForceOption(command) )
  => permissionDecision = "deny"

\* the names of all branches the command creates
CreatedNames(cmd) == {NameAt(cmd, p) : p \in CheckoutMatches(cmd)}

\* a name the Git Flow convention of the hook admits
IsGitFlowName(name) ==
  \/ name \in { <<"m","a","i","n">>, <<"d","e","v","e","l","o","p">> }
  \/ StartsWith(name, <<"f","e","a","t","u","r","e","/">>) /\ Len(name) > Len(<<"f","e","a","t","u","r","e","/">>)
  \/ StartsWith(name, <<"h","o","t","f","i","x","/">>) /\ Len(name) > Len(<<"h","o","t","f","i","x","/">>)
  \/ MatchesReleaseVersion(name)

(***************************************************************************)
(* C19. The branch-name hook allows a Bash command with 'git checkout -b   *)
(* <name>' if and only if every branch name the command creates is main,  *)
(* develop, feature/<non-empty>, hotfix/<non-empty> or                     *)
(* release/v<MAJOR>.<MINOR>.<PATCH>[-prerelease]; otherwise it denies.     *)
(***************************************************************************)
C19_AllowsExactlyGitFlowNames ==
  ( /\ HookDone("validate-branch-name")
    /\ tool_name = <<"B","a","s","h">>
    /\ CreatedNames(command) # {} )
  => ( permissionDecision # "deny"
         <=> \A name \in CreatedNames(command) : IsGitFlowName(name) )

\* the input is no valid PDF: the wrong type, or content that is no PDF
NotAValidPdf(path) ==
  \/ ~ path.is_file
  \/ SuffixLower(path.suffix) # ".pdf"
  \/ path.content = "corrupt"

\* the exit codes the docstring gives a run
DocumentedExitCodes(path, args) ==
  IF ~ path.exists THEN {1}
  ELSE IF NotAValidPdf(path) THEN {2}
  ELSE IF path.content = "unreadable" THEN {2, 3}
  ELSE IF args.out \in {"no_directory", "denied"} THEN {3}
  ELSE {0}

(***************************************************************************)
(* C20. main of analyze_form returns 0 on success, 1 when the input file   *)
(* does not exist, 2 when the input is no valid PDF (wrong type, corrupt   *)
(* content), 3 for any other processing error, and no other code.          *)
(***************************************************************************)
C20_ExitCodes ==
  pdf_pc = "done" =>
    /\ exit_code \in 0..3
    /\ exit_code \in DocumentedExitCodes(pdf_path, pdf_args)

\* the entries of the 'tags' list of a document, <<>> if it has none
TagListOf(content) ==
  LET frontmatter == extract_frontmatter(content)[1] IN
    IF frontmatter.t = "dict" /\ HasKey(frontmatter.pairs, KeyTags)
       /\ Lookup(frontmatter.pairs, KeyTags).t = "list"
    THEN Lookup(frontmatter.pairs, KeyTags).items ELSE <<>>

AllStrings(items) == \A i \in 1..Len(items) : items[i].t = "str"

NoDuplicates(items) == \A i, j \in 1..Len(items) : items[i] = items[j] => i = j

(***************************************************************************)
(* C21. After a run of EnhancedTagStandardizer.process_vault every         *)
(* processed document whose 'tags' field was a list of strings holds a     *)
(* tag list without duplicates, documents whose tags were all already in   *)
(* normalized form included (files whose read or write raised aside).      *)
(***************************************************************************)
C21_NoDuplicatesAfterRun ==
  enh_pc = "done" =>
    \A f \in FileIds :
      (f \notin enh_failed /\ TagListOf(enh_disk0[f]) # <<>> /\ AllStrings(TagListOf(enh_disk0[f])))
        => NoDuplicates(TagListOf(enh_disk[f]))

\* the message names one of the three words of the claim, in any letter case
NamesConnectionTrouble(message) ==
  \E word \in {<<"w","e","b","s","o","c","k","e","t">>, <<"c","o","n","n","e","c","t","i","o","n">>, <<"t","i","m","e","o","u","t">>} : Contains(StrLower(message), word)

\* Sandbox.create is called in this step
CreateAttempted == create_calls' = create_calls + 1

\* the run has failed in the creation loop for good: a failure that is not
\* retried, or the third retried one
CreationGivenUp ==
  /\ launch_error # <<>>
  /\ commands_run = 0
  /\ ~ NamesConnectionTrouble(launch_error) \/ retry_count >= max_retries

(***************************************************************************)
(* C22. Sandbox creation of the E2B launcher is retried a bounded number   *)
(* of times: Sandbox.create is called at most 3 times per run; a call      *)
(* after the first follows a failure whose message contains 'websocket',   *)
(* 'connection' or 'timeout' (in any letter case); after any other         *)
(* failure, or the third such failure, Sandbox.create is not called again  *)
(* and the run ends with exit code 1; and no command is run in a sandbox   *)
(* unless creation succeeded.                                              *)
(***************************************************************************)
C22_BoundedCreationRetries ==
  /\ [](create_calls <= 3)
  /\ [][(CreateAttempted /\ create_calls > 0) =>
          (NamesConnectionTrouble(launch_error) /\ retry_count < 3 /\ created = 0)]_vars
  /\ [][CreationGivenUp => ~ CreateAttempted]_vars
  /\ []((CreationGivenUp /\ launch_pc = "exited") => launch_exit = 1)
  /\ [](commands_run > 0 => created > 0)

\* the third retried failure has ended a run with exit code 1
C22_Witness ==
  /\ launch_pc = "exited" /\ create_calls = 3 /\ created = 0
  /\ NamesConnectionTrouble(launch_error) /\ launch_exit = 1

(***************************************************************************)
(* C23. Cleanup of the E2B launcher: on every path after the API keys are  *)
(* validated at most one sandbox is created, and kill() has been called on *)
(* every sandbox that was created when the process exits, also when        *)
(* set_timeout failed right after the creation.                            *)
(***************************************************************************)
C23_CreatedSandboxKilled ==
  /\ created <= 1
  /\ launch_pc = "exited" => kill_calls = created

\* set_timeout failed right after the creation, the run ended with exit
\* code 1 and the sandbox was killed
C23_Witness ==
  /\ launch_pc = "exited" /\ created = 1 /\ commands_run = 0
  /\ launch_exit = 1 /\ kill_calls = 1

(***************************************************************************)
(* C24. Cleanup of the E2B monitor: whenever Sandbox.create succeeded,     *)
(* sbx.kill() has been called when enhanced_sandbox_execution returns,     *)
(* whether it returns True or False.                                       *)
(***************************************************************************)
C24_MonitorKillsSandbox ==
  (mon_returned \in {"True", "False"} /\ mon_sbx # "none") => mon_kill_calls > 0

\* the download events fetched for a component of the given type and name
RECURSIVE EventsFor(_, _, _)
EventsFor(events, component_type, name) ==
  IF events = <<>> THEN 0
  ELSE (IF Head(events).component_type = component_type /\ Head(events).component_name = name
        THEN 1 ELSE 0) + EventsFor(Tail(events), component_type, name)

\* the entry reports the events counted for it, if there are any
ReportsItsEvents(entry, component_type) ==
  EventsFor(all_downloads, component_type, entry.name) > 0
    => entry.downloads = EventsFor(all_downloads, component_type, entry.name)

(***************************************************************************)
(* C25. The 'downloads' field of each template entry and of each plugin    *)
(* entry of the manifest is the count fetch_download_stats aggregated for  *)
(* it: when the download events fetched without an error hold n > 0        *)
(* events of a template or plugin, its entry reports downloads = n.        *)
(***************************************************************************)
C25_TemplateAndPluginDownloads ==
  (man_pc \in {"write", "done"} /\ fetch_error = "none") =>
    /\ \A k \in 1..Len(components_data.templates) :
         ReportsItsEvents(components_data.templates[k], <<"t","e","m","p","l","a","t","e">>)
    /\ \A k \in 1..Len(components_data.plugins) :
         ReportsItsEvents(components_data.plugins[k], <<"p","l","u","g","i","n">>)

\* the number of places text holds part at
CountSub(text, part) ==
  Cardinality({p \in 1..Len(text) : StartsWith(StrFrom(text, p), part)})

\* the line the last call inserts
InsertedLine == LinkLine(link_call.target, LinkTextOf(link_strategy))

\* where the line the last call inserted starts in the note, 0 if nowhere
InsertedAt == FindSub(link_file, InsertedLine, 1)

\* the note holds at most one inserted line for each target
InsertedAtMostOnce ==
  \A name \in LinkTargets :
    CountSub(link_file, LinkLine(name, LinkTextOf(link_strategy))) <= 1

\* the last call found its target referenced: False, file as it was
ExistingLinkLeftAlone ==
  Contains(link_call.before, WikiLink(link_call.target))
    => (~ link_call.returned /\ link_file = link_call.before)

\* the last call inserted a line of its own below a '## Related' heading
InsertedUnderHeading ==
  link_call.returned =>
    /\ InsertedAt > 0
    /\ InsertedAt = 1 \/ link_file[InsertedAt - 1] = NL
    /\ \E heading \in RelatedMatches(link_file) : heading < InsertedAt

(***************************************************************************)
(* C26. add_link_to_file of the keyword strategy adds a link only if it    *)
(* is not there: after any sequence of calls the note holds at most one    *)
(* inserted line for each target; a call whose target is already           *)
(* referenced as [[target]] returns False and leaves the note as it was;   *)
(* and every inserted line lies after a '## Related' heading.              *)
(***************************************************************************)
C26_KeywordLinkAddedOnce ==
  (link_strategy = "keyword" /\ link_calls > 0) =>
    (InsertedAtMostOnce /\ ExistingLinkLeftAlone /\ InsertedUnderHeading)

\* the last call of the entity strategy found a note that is not empty,
\* has none of the four headings and does not reference the target, and
\* returned True
EntityCallWithoutHeading ==
  /\ link_strategy = "entity" /\ link_calls > 0 /\ link_call.returned
  /\ MatchingPatterns(link_call.before) = <<>>

\* the first character after the frontmatter block of the content, 1 if it
\* has none
BodyStart(content) ==
  IF StartsWith(content, Delimiter) /\ FindSub(content, Delimiter, 4) # 0
  THEN FindSub(content, Delimiter, 4) + 3
  ELSE 1

(***************************************************************************)
(* C27. add_link_to_file of the entity strategy, on a note that is not     *)
(* empty and has no Related / See also / Links / References heading,       *)
(* appends a new '## Related' section at the end of the note with the link *)
(* line under it; the link line is never put before or inside the          *)
(* frontmatter block or at the very start of the note.                     *)
(***************************************************************************)
C27_EntityLinkAppended ==
  EntityCallWithoutHeading =>
    /\ link_file = WithRelatedSection(link_call.before) \o InsertedLine
    /\ InsertedAt > 1
    /\ InsertedAt >= BodyStart(link_file)

\* process_vault of the MetadataAdder is over: it returned, or the read of
\* its dry run raised out of it
AdderRunOver == tool = "MetadataAdder" /\ pc \in {"done", "aborted"}

CountersAddUp == stats.processed = stats.updated + stats.skipped + stats.errors

\* a file that began with the frontmatter delimiter is as it was
DelimitedFilesUntouched ==
  \A f \in FileIds : StartsWith(disk0[f], Delimiter) => disk[f] = disk0[f]

\* after a normal run without errors a second run would skip every file
SecondRunUpdatesNothing ==
  (pc = "done" /\ ~ dry_run /\ stats.errors = 0) =>
    \A f \in FileIds : has_frontmatter(disk[f])

RangeOfRequest(k) == <<k * 1000, k * 1000 + 999>>

\* the last page ends the loop: bad status, empty, short, or total reached
LastPageStops ==
  \/ pg_response.status \notin {200, 206}
  \/ pg_response.rows < 1000
  \/ pg_response.total.kind = "number" /\ pg_range[2] + 1 >= pg_response.total.n

(***************************************************************************)
(* C29. The paging of the download statistics is gap-free and bounded:     *)
(* the k-th request (k from 0) asks for the range [k*1000, k*1000+999], so *)
(* the ranges are contiguous and never overlap; at most 200 requests are   *)
(* made; no request follows a page that is empty, shorter than 1000 rows,  *)
(* reaches the reported total or has a status other than 200/206; and the  *)
(* fetch always terminates.                                                *)
(***************************************************************************)
C29_PagingGapFreeAndBounded ==
  /\ [](pg_requests > 0 => pg_range = RangeOfRequest(pg_requests - 1))
  /\ [](pg_requests <= 200)
  /\ [][(pg_requests' # pg_requests /\ pg_requests > 0) => ~ LastPageStops]_vars
  /\ <>(pg_pc = "done")

\* three requests were made and the third page, a short one, ended the loop
C29_Witness ==
  /\ pg_pc = "done" /\ pg_requests = 3
  /\ pg_range = <<2000, 2999>> /\ pg_response.rows = 500 /\ pg_fetched = 2500

====
